---------------------------- MODULE Spec2Model ----------------------------
(***************************************************************************)
(* GoRent: the concurrent download engine of the torrent package           *)
(* (src/torrent/torrent.go), the peer session (src/peer/peer.go) and the   *)
(* wire codec (src/message/message.go).                                    *)
(*                                                                         *)
(* Byte strings ([]byte) are run-length encoded: a sequence of runs        *)
(* [n |-> length, v |-> byte value], kept normalised (no empty run, no two *)
(* adjacent runs of the same value), so that two byte strings are equal    *)
(* exactly when their encodings are equal.  Offsets are 0-based as in Go.  *)
(***************************************************************************)
EXTENDS Integers, Sequences, FiniteSets, TLC

VARIABLES
    t,          \* the Torrent: Length, PieceLength, PieceHashes, Peers
    kind,       \* how each peer behaves: "honest", "rough", "any", "stalling",
                \* "scarce"
    announce,   \* the TorrentFile's Announce URL
    httpGets,   \* the calls of http.Get so far
    exitStatus, \* the status the process exited with, NoExit while it runs
    mainPc,     \* main: "tracker", "exit"; Download: "seed", "spawn", "recv",
                \* "done"
    seedIdx,    \* Download: index of the seeding loop
    spawnIdx,   \* Download: index of the spawn loop
    workQueue,  \* chan *pieceWork, buffered, capacity len(PieceHashes)
    closed,     \* close(workQueue) has happened
    donePieces, \* Download: donePieces
    bud,        \* Download: the output buffer
    printed,    \* the piece indices of the progress lines printed so far
    pc,         \* startDownloadWorker: position of each worker
    backoff,    \* startDownloadWorker: backoff, in seconds
    client,     \* the worker's *peer.Client (Conn open, Choked, Bitfield)
    pieceW,     \* the pieceWork a worker holds
    state,      \* attemptToDownloadPiece: the pieceProgress
    sent,       \* what the worker's latest step wrote to its connection
    haves,      \* per piece index, the calls of client.SendHave(index) so far
    deadline,   \* time left on the deadline of the worker's connection
    panicked,   \* a goroutine panicked: the process is dead
    wire,       \* the bytes written to a connection and not yet read from it
    readMsg     \* what the latest ReadMessage returned, where it is kept

vars == <<t, kind, announce, httpGets, exitStatus, mainPc, seedIdx, spawnIdx,
          workQueue, closed, donePieces, bud, printed, pc, backoff, client,
          pieceW, state, sent, haves, deadline, panicked, wire, readMsg>>

-----------------------------------------------------------------------------
(* Program constants *)

BLOCKSIZE == 16384
MAXBACKLOG == 100
MsgChoke == 0
MsgUnchoke == 1
MsgInterested == 2
MsgNotInterested == 3
MsgHave == 4
MsgBitField == 5
MsgRequest == 6
MsgPiece == 7
MsgCancel == 8
\* time.Second, the unit of backoff
Second == 1
\* 30*time.Second, the limit tested before doubling
BackoffLimit == 30

(* Bounds of the model *)

\* peers (workers) of the engine specifications
NumPeers == 2
\* PieceLength of the small torrent, in bytes
SmallPieceLength == 2
\* bytes of the last piece of the small torrent
SmallLastLength == 1
\* whole blocks of the one piece of the large torrent
LargeBlocks == 101
\* bytes of the last, short block of the large torrent
LargeResidual == 5
\* unsolicited Piece messages the peer may send beyond the Requests it got
MaxUnsolicited == 1
\* a message ID that names no message
UnknownID == 9
\* steps of the clock from the start of a piece attempt to its deadline
DeadlineTicks == 2
\* blocks a stalling peer delivers before it goes silent
StallAfterBlocks == 1
\* payload lengths and piece lengths of the torrents whose pieces are measured
MaxLength == 12
MaxPieceLength == 5
\* the longest run of payload bytes, next to a whole block, that is serialized
MaxPayloadRun == 3
\* the longest bitfield, in bytes, whose bits are set and checked
MaxBitfieldBytes == 2
\* whole blocks in the one piece of the torrent on which the frames are kept
MidBlocks == 2

-----------------------------------------------------------------------------
(* []byte *)

Min(a, b) == IF a < b THEN a ELSE b

RECURSIVE Pow2(_)
Pow2(k) == IF k <= 0 THEN 1 ELSE 2 * Pow2(k - 1)

\* the one element of a singleton set; Only({e : x \in {a}}) is e with x
\* standing for the value of a, which is then worked out a single time
Only(S) == CHOOSE x \in S : TRUE

Run(n, v) == IF n <= 0 THEN <<>> ELSE <<[n |-> n, v |-> v]>>

\* make([]byte, n)
Make(n) == Run(n, 0)

\* len(bs)
RECURSIVE BLen(_)
BLen(bs) ==
    Only({IF b = <<>> THEN 0 ELSE Head(b).n + BLen(Tail(b)) : b \in {bs}})

\* bs[i]
RECURSIVE BAt(_, _)
BAt(bs, i) ==
    Only({IF i < Head(b).n THEN Head(b).v ELSE BAt(Tail(b), i - Head(b).n) :
            b \in {bs}})

\* bs[:k]
RECURSIVE Take(_, _)
Take(bs, k) ==
    Only({IF k <= 0 \/ b = <<>> THEN <<>>
          ELSE IF Head(b).n <= k THEN <<Head(b)>> \o Take(Tail(b), k - Head(b).n)
          ELSE Run(k, Head(b).v) : b \in {bs}})

\* bs[k:]
RECURSIVE Drop(_, _)
Drop(bs, k) ==
    Only({IF k <= 0 \/ b = <<>> THEN b
          ELSE IF Head(b).n <= k THEN Drop(Tail(b), k - Head(b).n)
          ELSE Run(Head(b).n - k, Head(b).v) \o Tail(b) : b \in {bs}})

\* the run h put before the normalised byte string r
NormCons(h, r) ==
    IF h.v = Head(r).v
    THEN <<[n |-> h.n + Head(r).n, v |-> h.v]>> \o Tail(r)
    ELSE <<h>> \o r

\* the normal form of a sequence of non-empty runs
RECURSIVE Norm(_)
Norm(bs) ==
    Only({IF Len(b) <= 1 THEN b
          ELSE Only({NormCons(Head(b), r) : r \in {Norm(Tail(b))}}) : b \in {bs}})

\* b[lo:hi]
Slice(b, lo, hi) == Take(Drop(b, lo), hi - lo)

\* copy(dst[begin:end], src): min(end-begin, len(src)) bytes are copied
CopyInto(dst, begin, end, src) ==
    Only({Norm(Take(d, begin) \o Take(sr, Min(end - begin, BLen(sr)))
                 \o Drop(d, begin + Min(end - begin, BLen(sr)))) :
            d \in {dst}, sr \in {src}})

\* binary.BigEndian.Uint32(b[0:4])
Uint32(bs) ==
    Only({BAt(b, 0) * 16777216 + BAt(b, 1) * 65536 + BAt(b, 2) * 256 + BAt(b, 3) :
            b \in {bs}})

\* binary.BigEndian.PutUint32(payload, uint32(x))
PutUint32(x) ==
    Norm(<<[n |-> 1, v |-> (x \div 16777216) % 256],
           [n |-> 1, v |-> (x \div 65536) % 256],
           [n |-> 1, v |-> (x \div 256) % 256],
           [n |-> 1, v |-> x % 256]>>)

\* sha1.Sum(buf): SHA-1 taken as collision-free, a hash stands for its preimage
sha1Sum(buf) == Norm(buf)

-----------------------------------------------------------------------------
(* The Torrent and its payload *)

\* the true bytes of piece i of a payload of N bytes in pieces of L bytes
Content(i, N, L) == Run(Min(L, N - i * L), i + 1)

\* a Torrent whose metainfo is well formed: ceil(N / L) piece hashes
MkTorrent(N, L, k) ==
    [Length |-> N, PieceLength |-> L, Peers |-> k,
     PieceHashes |-> [i \in 0 .. ((N + L - 1) \div L) - 1 |-> sha1Sum(Content(i, N, L))]]

SmallTorrent ==
    MkTorrent(SmallPieceLength + SmallLastLength, SmallPieceLength, NumPeers)

LargeTorrent ==
    MkTorrent(LargeBlocks * BLOCKSIZE + LargeResidual,
              LargeBlocks * BLOCKSIZE + LargeResidual, 1)

MidTorrent ==
    MkTorrent(MidBlocks * BLOCKSIZE + LargeResidual,
              MidBlocks * BLOCKSIZE + LargeResidual, 1)

\* len(t.PieceHashes)
NumPieces == Cardinality(DOMAIN t.PieceHashes)

Workers == 1 .. t.Peers

\* the bounds without the clamp to t.Length
calculateBoundsForPiece_NoClamp(index) ==
    [begin |-> index * t.PieceLength, end |-> index * t.PieceLength + t.PieceLength]

calculateBoundsForPiece(index) ==
    LET begin == index * t.PieceLength
        end == begin + t.PieceLength
    IN  [begin |-> begin, end |-> IF end > t.Length THEN t.Length ELSE end]

\* a length that takes no account of the end of the payload
calculateLengthForPiece_Full(index) == t.PieceLength

calculateLengthForPiece(index) ==
    calculateBoundsForPiece(index).end - calculateBoundsForPiece(index).begin

TrueContent(i) == Content(i, t.Length, t.PieceLength)

\* the true bytes of the whole payload, from piece i on
RECURSIVE PayloadFrom(_)
PayloadFrom(i) ==
    IF i >= NumPieces THEN <<>> ELSE Norm(TrueContent(i) \o PayloadFrom(i + 1))

-----------------------------------------------------------------------------
(* Bitfield *)

\* bt[index/8] is inside the slice; Go panics when it is not
InRange(bt, index) == index >= 0 /\ index \div 8 < BLen(bt)

\* a bitfield that is taken to hold every piece
CheckPiece_AlwaysHas(bt, index) == TRUE

CheckPiece(bt, index) ==
    LET byteIndex == index \div 8
        offset == index % 8
    IN  (BAt(bt, byteIndex) \div Pow2(7 - offset)) % 2 # 0

\* a SetPiece that counts the bits of a byte from its low end
SetPiece_LSBFirst(bt, index) ==
    LET byteIndex == index \div 8
        offset == index % 8
    IN  Only({CopyInto(bt, byteIndex, byteIndex + 1,
                       Run(1, IF (old \div Pow2(offset)) % 2 # 0 THEN old
                              ELSE old + Pow2(offset))) :
                old \in {BAt(bt, byteIndex)}})

SetPiece(bt, index) ==
    LET byteIndex == index \div 8
        offset == index % 8
    IN  Only({CopyInto(bt, byteIndex, byteIndex + 1,
                       Run(1, IF (old \div Pow2(7 - offset)) % 2 # 0 THEN old
                              ELSE old + Pow2(7 - offset))) :
                old \in {BAt(bt, byteIndex)}})

\* the bitfield of BLen n bytes with exactly the bits of the set S
RECURSIVE BitfieldOf(_, _)
BitfieldOf(S, n) ==
    IF S = {} THEN Make(n)
    ELSE LET i == CHOOSE x \in S : TRUE
         IN  Only({SetPiece(bt, i) : bt \in {BitfieldOf(S \ {i}, n)}})

-----------------------------------------------------------------------------
(* Messages *)

\* a nil *Message: what ReadMessage returns for a keep-alive frame
NilMsg == [ID |-> -1, Payload |-> <<>>]

Msg(id, payload) == [ID |-> id, Payload |-> payload]

formatHave(index) == Msg(MsgHave, PutUint32(index))

formatRequest(index, begin, length) ==
    Msg(MsgRequest,
        Norm(PutUint32(index) \o PutUint32(begin) \o PutUint32(length)))

\* a Piece message as a peer builds it
PieceMsg(index, begin, data) ==
    Msg(MsgPiece, Norm(PutUint32(index) \o PutUint32(begin) \o data))

\* a Serialize whose length prefix leaves out the ID byte
Serialize_ShortLength(m) ==
    IF m = NilMsg THEN Make(4)
    ELSE Norm(PutUint32(BLen(m.Payload)) \o Run(1, m.ID % 256) \o m.Payload)

\* Message.Serialize: four zero bytes for a nil message, otherwise the length
\* prefix uint32(len(Payload) + 1), the ID byte and the payload (payloads
\* here are far shorter than 2^32 bytes, so the conversion changes nothing)
Serialize(m) ==
    IF m = NilMsg THEN Make(4)
    ELSE LET length == BLen(m.Payload) + 1
             buffer == Make(4 + length)
             withLen == CopyInto(buffer, 0, 4, PutUint32(length))
             withID == CopyInto(withLen, 4, 5, Run(1, m.ID % 256))
         IN  CopyInto(withID, 5, 4 + length, m.Payload)

\* ReadMessage on a reader that holds the bytes r and then ends: the error of
\* io.ReadFull, or the message (nil for a length prefix of 0), and the number
\* of bytes taken from the reader
ReadMessage(r) ==
    IF BLen(r) < 4 THEN [err |-> TRUE, msg |-> NilMsg, n |-> BLen(r)]
    ELSE LET length == Uint32(Take(r, 4)) IN
         IF length = 0 THEN [err |-> FALSE, msg |-> NilMsg, n |-> 4]
         ELSE IF BLen(r) - 4 < length
         THEN [err |-> TRUE, msg |-> NilMsg, n |-> BLen(r)]
         ELSE LET messageBuffer == Slice(r, 4, 4 + length) IN
              [err |-> FALSE,
               msg |-> [ID |-> BAt(messageBuffer, 0),
                        Payload |-> Drop(messageBuffer, 1)],
               n |-> 4 + length]

\* a parsePieceMessage that lets begin be the end of the buffer
parsePieceMessage_BeginAtEnd(index, buf, msg) ==
    LET fail == [err |-> TRUE, n |-> 0, buf |-> buf] IN
    IF msg.ID # MsgPiece THEN fail
    ELSE IF BLen(msg.Payload) < 8 THEN fail
    ELSE IF Uint32(Slice(msg.Payload, 0, 4)) # index THEN fail
    ELSE LET begin == Uint32(Slice(msg.Payload, 4, 8))
             data == Drop(msg.Payload, 8)
         IN  IF begin > BLen(buf) THEN fail
             ELSE IF BLen(data) + begin > BLen(buf) THEN fail
             ELSE [err |-> FALSE, n |-> BLen(data),
                   buf |-> CopyInto(buf, begin, BLen(buf), data)]

parsePieceMessage(index, buf, msg) ==
    LET fail == [err |-> TRUE, n |-> 0, buf |-> buf] IN
    IF msg.ID # MsgPiece THEN fail
    ELSE IF BLen(msg.Payload) < 8 THEN fail
    ELSE IF Uint32(Slice(msg.Payload, 0, 4)) # index THEN fail
    ELSE LET begin == Uint32(Slice(msg.Payload, 4, 8))
             data == Drop(msg.Payload, 8)
         IN  IF begin >= BLen(buf) THEN fail
             ELSE IF BLen(data) + begin > BLen(buf) THEN fail
             ELSE [err |-> FALSE, n |-> BLen(data),
                   buf |-> CopyInto(buf, begin, BLen(buf), data)]

parseHaveMessage(msg) ==
    IF msg.ID # MsgHave THEN [err |-> TRUE, index |-> 0]
    ELSE IF BLen(msg.Payload) # 4 THEN [err |-> TRUE, index |-> 0]
    ELSE [err |-> FALSE, index |-> Uint32(msg.Payload)]

\* a check that lets every buffer through
checkIntergrityForPiece_AlwaysPasses(pw, buf) == TRUE

checkIntergrityForPiece(pw, buf) == sha1Sum(buf) = pw.hash

-----------------------------------------------------------------------------
(* Values of the worker's variables that hold nothing *)

NoClient == [open |-> FALSE, Choked |-> TRUE, Bitfield |-> <<>>]
NoWork == [index |-> -1, hash |-> <<>>, length |-> 0]
NoProgress ==
    [index |-> -1, buffer |-> <<>>, downloaded |-> 0, requested |-> 0, backlog |-> 0]
\* time.Time{}: the connection has no deadline
NoDeadline == -1

\* the process has not exited
NoExit == -1

\* nothing has been read
NoRead == [err |-> FALSE, msg |-> NilMsg, n |-> 0]

-----------------------------------------------------------------------------
(* What a peer may do: the frames it may send, drawn from small sets *)

AllPieces == 0 .. NumPieces - 1

\* bytes of a bitfield sized for the torrent
BitfieldBytes == (NumPieces + 7) \div 8

\* the piece that the peers of kind "scarce" do not hold: the last one
ScarcePiece == NumPieces - 1

\* the outcome of dial and handshake, and the first frame read after them:
\* an error, a keep-alive, a frame that is no Bitfield, an empty Bitfield, or
\* a Bitfield sized for the torrent
ConnectFrames(w) ==
    IF kind[w] \in {"honest", "stalling"}
    THEN {[err |-> FALSE, msg |-> Msg(MsgBitField, BitfieldOf(AllPieces, BitfieldBytes))]}
    ELSE {[err |-> TRUE, msg |-> NilMsg]}
         \cup {[err |-> FALSE, msg |-> m] :
                 m \in {NilMsg, Msg(MsgUnchoke, <<>>), Msg(MsgBitField, <<>>)}
                       \cup {Msg(MsgBitField, BitfieldOf(S, BitfieldBytes)) :
                               S \in IF kind[w] = "any" THEN SUBSET AllPieces
                                     ELSE IF kind[w] = "scarce"
                                     THEN {{}, AllPieces \ {ScarcePiece}}
                                     ELSE {{}, {0}, AllPieces}}}

\* the block of piece index that starts at begin, with its true bytes
GoodBlock(index, begin) ==
    Slice(TrueContent(index), begin, Min(begin + BLOCKSIZE, BLen(TrueContent(index))))

\* the same block with its first byte flipped
FlippedBlock(index, begin) ==
    Norm(Run(1, 255) \o Drop(GoodBlock(index, begin), 1))

\* frames that carry no Piece data
ControlFrames(w) ==
    {NilMsg, formatHave(8 * BLen(client[w].Bitfield)), Msg(MsgHave, Run(3, 0))}
    \cup {Msg(id, <<>>) : id \in {MsgChoke, MsgUnchoke, MsgInterested, MsgNotInterested,
                                   MsgBitField, MsgRequest, MsgCancel, UnknownID}}
    \cup {Msg(MsgBitField, Make(BLen(client[w].Bitfield))),
          Msg(MsgCancel, formatRequest(pieceW[w].index, 0, BLOCKSIZE).Payload)}
    \cup {formatHave(i) : i \in AllPieces}

\* Piece frames that parsePieceMessage rejects
BadPieceFrames(w) ==
    {Msg(MsgPiece, Run(7, 0)),
     PieceMsg(pieceW[w].index + 1, 0, <<>>),
     PieceMsg(pieceW[w].index, pieceW[w].length, <<>>),
     PieceMsg(pieceW[w].index, pieceW[w].length - 1, Run(2, 0)),
     PieceMsg(pieceW[w].index, 0, Run(pieceW[w].length + 1, 0))}

\* Piece frames that parsePieceMessage accepts: the next block in order;
\* while no more than one block has arrived, the first block again and the
\* first block with a flipped byte; while no more than one block has been
\* asked for, a block of no data
GoodPieceFrames(w) ==
    IF state[w].backlog <= 0 - MaxUnsolicited THEN {}
    ELSE {PieceMsg(pieceW[w].index, state[w].downloaded,
                   GoodBlock(pieceW[w].index, state[w].downloaded))}
         \cup (IF state[w].downloaded > BLOCKSIZE THEN {}
               ELSE {PieceMsg(pieceW[w].index, 0, GoodBlock(pieceW[w].index, 0)),
                     PieceMsg(pieceW[w].index, 0, FlippedBlock(pieceW[w].index, 0))})
         \cup (IF state[w].requested > BLOCKSIZE THEN {}
               ELSE {PieceMsg(pieceW[w].index, 0, <<>>)})

\* one frame for each way checkState can end
RoughFrames(w) ==
    {NilMsg, Msg(MsgUnchoke, <<>>), formatHave(8 * BLen(client[w].Bitfield))}
    \cup (GoodPieceFrames(w) \ {PieceMsg(pieceW[w].index, 0, <<>>)})

\* what client.Read() may return during a download before the deadline; an
\* honest peer chokes and unchokes as it likes and answers the Requests it
\* got, in order; a stalling peer unchokes, answers in order and then goes
\* silent, so that the read blocks
ReadFrames(w) ==
    IF kind[w] = "honest"
    THEN {[err |-> FALSE, msg |-> m] :
            m \in {Msg(MsgChoke, <<>>), Msg(MsgUnchoke, <<>>)}
                  \cup IF state[w].backlog <= 0 THEN {}
                       ELSE {PieceMsg(pieceW[w].index, state[w].downloaded,
                                      GoodBlock(pieceW[w].index, state[w].downloaded))}}
    ELSE IF kind[w] = "stalling"
    THEN IF state[w].downloaded >= StallAfterBlocks * BLOCKSIZE THEN {}
         ELSE {[err |-> FALSE, msg |-> m] :
                 m \in IF client[w].Choked THEN {Msg(MsgUnchoke, <<>>)}
                       ELSE IF state[w].backlog <= 0 THEN {}
                       ELSE {PieceMsg(pieceW[w].index, state[w].downloaded,
                                      GoodBlock(pieceW[w].index, state[w].downloaded))}}
    ELSE {[err |-> TRUE, msg |-> NilMsg]}
         \cup {[err |-> FALSE, msg |-> m] :
                 m \in IF kind[w] = "any"
                       THEN ControlFrames(w) \cup BadPieceFrames(w) \cup GoodPieceFrames(w)
                       ELSE RoughFrames(w)}

\* whether a write to the connection succeeds
WriteOutcomes(w) ==
    IF kind[w] \in {"honest", "stalling"} THEN {TRUE} ELSE {TRUE, FALSE}

-----------------------------------------------------------------------------
(* main and Download: the main path *)

\* what is settled before Download starts: the torrent, the peers, and what
\* the tracker step left behind
cfgVars == <<t, kind, announce, httpGets, exitStatus>>
\* the byte stream of a connection and the message read from it
ioVars == <<wire, readMsg>>
mainVars == <<mainPc, seedIdx, spawnIdx, donePieces, bud, printed>>
workerVars == <<pc, backoff, client, pieceW, state, sent>>

\* url.Parse(t.Announce): the scheme, in lower case, is what stands before
\* the first colon; a URL with a bad escape does not parse
urlParse(rawURL) ==
    CASE rawURL = "http://tracker/announce" ->
           [err |-> FALSE, Scheme |-> "http"]
      [] rawURL = "HTTPS://tracker/announce" ->
           [err |-> FALSE, Scheme |-> "https"]
      [] rawURL = "udp://tracker:6969" ->
           [err |-> FALSE, Scheme |-> "udp"]
      [] rawURL = "wss://tracker/announce" ->
           [err |-> FALSE, Scheme |-> "wss"]
      [] rawURL = "tracker/announce" ->
           [err |-> FALSE, Scheme |-> ""]
      [] rawURL = "http://tracker/%zz" ->
           [err |-> TRUE, Scheme |-> ""]

\* the announce URLs tried
AnnounceURLs ==
    {"http://tracker/announce", "HTTPS://tracker/announce",
     "udp://tracker:6969", "wss://tracker/announce", "tracker/announce",
     "http://tracker/%zz"}

\* a RequestPeers that asks the tracker before it looks at the scheme
ReachesGet_Unchecked(rawURL) == ~urlParse(rawURL).err

\* RequestPeers: whether it gets as far as http.Get(urle)
ReachesGet(rawURL) ==
    /\ ~urlParse(rawURL).err
    /\ urlParse(rawURL).Scheme \in {"http", "https"}

\* peers, err := torrent.RequestPeers(...); if err != nil { log.Fatal(err) }:
\* the URL is built and parsed, the scheme checked, and only then the tracker
\* asked; every error ends the process with status 1, before Download
RequestPeers ==
    /\ ~panicked
    /\ mainPc = "tracker"
    /\ IF ReachesGet(announce)
       THEN /\ httpGets' = httpGets + 1
            /\ \E ok \in BOOLEAN :
                 IF ok
                 THEN mainPc' = "seed" /\ UNCHANGED exitStatus
                 ELSE mainPc' = "exit" /\ exitStatus' = 1
       ELSE /\ mainPc' = "exit"
            /\ exitStatus' = 1
            /\ UNCHANGED httpGets
    /\ UNCHANGED <<t, kind, announce, ioVars, seedIdx, spawnIdx, donePieces,
                   bud, printed, workQueue, closed, workerVars, haves,
                   deadline, panicked>>

\* for index, hash := range t.PieceHashes { workQueue <- &pieceWork{...} }
Seed ==
    /\ ~panicked
    /\ mainPc = "seed"
    /\ Len(workQueue) < NumPieces
    /\ workQueue' = Append(workQueue,
                           [index |-> seedIdx, hash |-> t.PieceHashes[seedIdx],
                            length |-> calculateLengthForPiece(seedIdx)])
    /\ seedIdx' = seedIdx + 1
    /\ mainPc' = IF seedIdx + 1 < NumPieces THEN "seed" ELSE "spawn"
    /\ UNCHANGED <<cfgVars, ioVars, haves, deadline, spawnIdx, donePieces,
                   bud, printed, closed, workerVars, panicked>>

\* for _, p := range t.Peers { go t.startDownloadWorker(p, ...) }; then
\* bud := make([]byte, t.Length); donePieces := 0
Spawn ==
    /\ ~panicked
    /\ mainPc = "spawn"
    /\ pc' = [pc EXCEPT ![spawnIdx] = "connect"]
    /\ spawnIdx' = spawnIdx + 1
    /\ IF spawnIdx + 1 <= t.Peers
       THEN UNCHANGED <<mainPc, bud, donePieces>>
       ELSE /\ mainPc' = "recv"
            /\ bud' = Make(t.Length)
            /\ donePieces' = 0
    /\ UNCHANGED <<cfgVars, ioVars, haves, deadline, seedIdx, printed,
                   workQueue, closed, backoff, client, pieceW, state, sent,
                   panicked>>

\* a receive that forgets donePieces++
Receive_Uncounted(w) ==
    /\ ~panicked
    /\ mainPc = "recv"
    /\ donePieces < NumPieces
    /\ pc[w] = "publish"
    /\ pc' = [pc EXCEPT ![w] = "range"]
    /\ pieceW' = [pieceW EXCEPT ![w] = NoWork]
    /\ state' = [state EXCEPT ![w] = NoProgress]
    /\ UNCHANGED <<cfgVars, ioVars, haves, deadline, mainVars, workQueue,
                   closed, backoff, client, sent, panicked>>

\* res := <-result; copy(bud[begin:end], res.buf); donePieces++; the receive
\* completes worker w's send on the unbuffered channel
Receive(w) ==
    /\ ~panicked
    /\ mainPc = "recv"
    /\ donePieces < NumPieces
    /\ pc[w] = "publish"
    /\ LET bounds == calculateBoundsForPiece(pieceW[w].index) IN
       bud' = CopyInto(bud, bounds.begin, bounds.end, state[w].buffer)
    /\ donePieces' = donePieces + 1
    /\ printed' = Append(printed, pieceW[w].index)
    /\ pc' = [pc EXCEPT ![w] = "range"]
    /\ pieceW' = [pieceW EXCEPT ![w] = NoWork]
    /\ state' = [state EXCEPT ![w] = NoProgress]
    /\ UNCHANGED <<cfgVars, ioVars, haves, deadline, mainPc, seedIdx,
                   spawnIdx, workQueue, closed, backoff, client, sent,
                   panicked>>

\* a Download that closes the queue one piece early
Close_Early ==
    /\ ~panicked
    /\ mainPc = "recv"
    /\ donePieces >= NumPieces - 1
    /\ closed' = TRUE
    /\ mainPc' = "done"
    /\ UNCHANGED <<cfgVars, ioVars, haves, deadline, seedIdx, spawnIdx,
                   donePieces, bud, printed, workQueue, workerVars, panicked>>

\* the loop ends: close(workQueue); return bud, nil
Close ==
    /\ ~panicked
    /\ mainPc = "recv"
    /\ donePieces >= NumPieces
    /\ closed' = TRUE
    /\ mainPc' = "done"
    /\ UNCHANGED <<cfgVars, ioVars, haves, deadline, seedIdx, spawnIdx,
                   donePieces, bud, printed, workQueue, workerVars, panicked>>

-----------------------------------------------------------------------------
(* peer.NewClient *)

\* recieveBitField on the first frame read: msg.ID of a nil msg dereferences
\* a nil pointer
recieveBitField(frame) ==
    IF frame.err THEN [err |-> TRUE, panic |-> FALSE, bf |-> <<>>]
    ELSE IF frame.msg = NilMsg THEN [err |-> FALSE, panic |-> TRUE, bf |-> <<>>]
    ELSE IF frame.msg.ID # MsgBitField THEN [err |-> TRUE, panic |-> FALSE, bf |-> <<>>]
    ELSE [err |-> FALSE, panic |-> FALSE, bf |-> frame.msg.Payload]

\* a NewClient whose Client starts unchoked
NewClient_Unchoked(bf) == [open |-> TRUE, Choked |-> FALSE, Bitfield |-> bf]

\* the Client NewClient returns
NewClient(bf) == [open |-> TRUE, Choked |-> TRUE, Bitfield |-> bf]

-----------------------------------------------------------------------------
(* startDownloadWorker *)

\* the back-off after a failed connect: if backoff < 30s { backoff *= 2 }
NextBackoff(b) == IF b < BackoffLimit * Second THEN b * 2 ELSE b

\* a send that leaves the piece in the worker's hand as well
Requeue_KeepsPiece(w, next) ==
    IF closed
    THEN /\ panicked' = TRUE
         /\ UNCHANGED <<workQueue, pc, pieceW, state>>
    ELSE /\ Len(workQueue) < NumPieces
         /\ workQueue' = Append(workQueue, pieceW[w])
         /\ pc' = [pc EXCEPT ![w] = next]
         /\ UNCHANGED <<pieceW, state, panicked>>

\* workQueue <- pieceW, then the loop goes on at next: the send blocks while
\* the queue is full and panics once the queue is closed
Requeue(w, next) ==
    IF closed
    THEN /\ panicked' = TRUE
         /\ UNCHANGED <<workQueue, pc, pieceW, state>>
    ELSE /\ Len(workQueue) < NumPieces
         /\ workQueue' = Append(workQueue, pieceW[w])
         /\ pc' = [pc EXCEPT ![w] = next]
         /\ pieceW' = [pieceW EXCEPT ![w] = NoWork]
         /\ state' = [state EXCEPT ![w] = NoProgress]
         /\ UNCHANGED panicked

\* a connect that leaves the back-off as the failures before it made it
Connect_KeepsBackoff(w) ==
    /\ ~panicked
    /\ pc[w] = "connect"
    /\ \E frame \in ConnectFrames(w) : \E r \in {recieveBitField(frame)} :
         IF r.panic
         THEN /\ panicked' = TRUE
              /\ UNCHANGED <<pc, client>>
         ELSE IF r.err
         THEN /\ pc' = [pc EXCEPT ![w] = "sleep"]
              /\ client' = [client EXCEPT ![w] = NoClient]
              /\ UNCHANGED panicked
         ELSE /\ pc' = [pc EXCEPT ![w] = "unchoke"]
              /\ client' = [client EXCEPT ![w] = NewClient(r.bf)]
              /\ UNCHANGED panicked
    /\ sent' = [sent EXCEPT ![w] = <<>>]
    /\ UNCHANGED <<cfgVars, ioVars, haves, deadline, mainVars, workQueue,
                   closed, backoff, pieceW, state>>

\* client, err := peer.NewClient(...); on success backoff = time.Second
Connect(w) ==
    /\ ~panicked
    /\ pc[w] = "connect"
    /\ \E frame \in ConnectFrames(w) : \E r \in {recieveBitField(frame)} :
         IF r.panic
         THEN /\ panicked' = TRUE
              /\ UNCHANGED <<pc, backoff, client>>
         ELSE IF r.err
         THEN /\ pc' = [pc EXCEPT ![w] = "sleep"]
              /\ client' = [client EXCEPT ![w] = NoClient]
              /\ UNCHANGED <<backoff, panicked>>
         ELSE /\ pc' = [pc EXCEPT ![w] = "unchoke"]
              /\ client' = [client EXCEPT ![w] = NewClient(r.bf)]
              /\ backoff' = [backoff EXCEPT ![w] = Second]
              /\ UNCHANGED panicked
    /\ sent' = [sent EXCEPT ![w] = <<>>]
    /\ UNCHANGED <<cfgVars, ioVars, haves, deadline, mainVars, workQueue,
                   closed, pieceW, state>>

\* time.Sleep(backoff); if backoff < 30*time.Second { backoff *= 2 }; continue
Sleep(w) ==
    /\ ~panicked
    /\ pc[w] = "sleep"
    /\ backoff' = [backoff EXCEPT ![w] = NextBackoff(backoff[w])]
    /\ pc' = [pc EXCEPT ![w] = "connect"]
    /\ sent' = [sent EXCEPT ![w] = <<>>]
    /\ UNCHANGED <<cfgVars, ioVars, haves, deadline, mainVars, workQueue,
                   closed, client, pieceW, state, panicked>>

\* client.SendUnchoke(): the error is dropped
SendUnchoke(w) ==
    /\ ~panicked
    /\ pc[w] = "unchoke"
    /\ \E ok \in WriteOutcomes(w) :
         sent' = [sent EXCEPT ![w] = <<[msg |-> Msg(MsgUnchoke, <<>>), ok |-> ok]>>]
    /\ pc' = [pc EXCEPT ![w] = "interested"]
    /\ UNCHANGED <<cfgVars, ioVars, haves, deadline, mainVars, workQueue,
                   closed, backoff, client, pieceW, state, panicked>>

\* client.SendInterested(): the error is dropped
SendInterested(w) ==
    /\ ~panicked
    /\ pc[w] = "interested"
    /\ \E ok \in WriteOutcomes(w) :
         sent' = [sent EXCEPT ![w] = <<[msg |-> Msg(MsgInterested, <<>>), ok |-> ok]>>]
    /\ pc' = [pc EXCEPT ![w] = "range"]
    /\ UNCHANGED <<cfgVars, ioVars, haves, deadline, mainVars, workQueue,
                   closed, backoff, client, pieceW, state, panicked>>

\* the pieceProgress attemptToDownloadPiece starts with
NewProgress(pw) ==
    [index |-> pw.index, buffer |-> Make(pw.length), downloaded |-> 0,
     requested |-> 0, backlog |-> 0]

\* a worker that takes every piece up with the session choked
Dequeue_StartsChoked(w) ==
    /\ ~panicked
    /\ pc[w] = "range"
    /\ workQueue # <<>>
    /\ workQueue' = Tail(workQueue)
    /\ pieceW' = [pieceW EXCEPT ![w] = Head(workQueue)]
    /\ client' = [client EXCEPT ![w].Choked = TRUE]
    /\ LET pw == Head(workQueue) IN
       IF ~InRange(client[w].Bitfield, pw.index)
       THEN /\ panicked' = TRUE
            /\ UNCHANGED <<pc, state, deadline>>
       ELSE IF ~CheckPiece(client[w].Bitfield, pw.index)
       THEN /\ pc' = [pc EXCEPT ![w] = "missing"]
            /\ UNCHANGED <<state, deadline, panicked>>
       ELSE /\ pc' = [pc EXCEPT ![w] = "loop"]
            /\ state' = [state EXCEPT ![w] = NewProgress(pw)]
            /\ deadline' = [deadline EXCEPT ![w] = DeadlineTicks]
            /\ UNCHANGED panicked
    /\ sent' = [sent EXCEPT ![w] = <<>>]
    /\ UNCHANGED <<cfgVars, ioVars, haves, mainVars, closed, backoff>>

\* pieceW := <-workQueue, then client.Bitfield.CheckPiece(pieceW.index): the
\* piece is missing, or attemptToDownloadPiece starts and sets the deadline
Dequeue(w) ==
    /\ ~panicked
    /\ pc[w] = "range"
    /\ workQueue # <<>>
    /\ workQueue' = Tail(workQueue)
    /\ pieceW' = [pieceW EXCEPT ![w] = Head(workQueue)]
    /\ LET pw == Head(workQueue) IN
       IF ~InRange(client[w].Bitfield, pw.index)
       THEN /\ panicked' = TRUE
            /\ UNCHANGED <<pc, state, deadline>>
       ELSE IF ~CheckPiece(client[w].Bitfield, pw.index)
       THEN /\ pc' = [pc EXCEPT ![w] = "missing"]
            /\ UNCHANGED <<state, deadline, panicked>>
       ELSE /\ pc' = [pc EXCEPT ![w] = "loop"]
            /\ state' = [state EXCEPT ![w] = NewProgress(pw)]
            /\ deadline' = [deadline EXCEPT ![w] = DeadlineTicks]
            /\ UNCHANGED panicked
    /\ sent' = [sent EXCEPT ![w] = <<>>]
    /\ UNCHANGED <<cfgVars, ioVars, haves, mainVars, closed, backoff, client>>

\* range workQueue ends on the closed, drained queue: the outer for loop
\* goes round again
RangeEnds(w) ==
    /\ ~panicked
    /\ pc[w] = "range"
    /\ workQueue = <<>>
    /\ closed
    /\ pc' = [pc EXCEPT ![w] = "connect"]
    /\ sent' = [sent EXCEPT ![w] = <<>>]
    /\ UNCHANGED <<cfgVars, ioVars, haves, deadline, mainVars, workQueue,
                   closed, backoff, client, pieceW, state, panicked>>

\* break in place of continue
RequeueMissing_Breaks(w) ==
    /\ ~panicked
    /\ pc[w] = "missing"
    /\ Requeue(w, "connect")
    /\ sent' = [sent EXCEPT ![w] = <<>>]
    /\ UNCHANGED <<cfgVars, ioVars, haves, deadline, mainVars, closed,
                   backoff, client>>

\* the peer lacks the piece: workQueue <- pieceW; continue
RequeueMissing(w) ==
    /\ ~panicked
    /\ pc[w] = "missing"
    /\ Requeue(w, "range")
    /\ sent' = [sent EXCEPT ![w] = <<>>]
    /\ UNCHANGED <<cfgVars, ioVars, haves, deadline, mainVars, closed,
                   backoff, client>>

-----------------------------------------------------------------------------
(* attemptToDownloadPiece *)

\* the issue loop without the test of Choked
CanRequest_IgnoresChoke(cl, st, pw) ==
    /\ st.backlog < MAXBACKLOG
    /\ st.requested < pw.length

\* the issue loop with one more Request in flight
CanRequest_OneMore(cl, st, pw) ==
    /\ ~cl.Choked
    /\ st.backlog <= MAXBACKLOG
    /\ st.requested < pw.length

\* the condition of the issue loop, under if !state.client.Choked
CanRequest(cl, st, pw) ==
    /\ ~cl.Choked
    /\ st.backlog < MAXBACKLOG
    /\ st.requested < pw.length

\* every block asked for at full size
blockSize_AlwaysFull(st, pw) == BLOCKSIZE

\* blockSize := BLOCKSIZE, or what is left of the piece
blockSize(st, pw) ==
    IF pw.length - st.requested < BLOCKSIZE THEN pw.length - st.requested
    ELSE BLOCKSIZE

\* client.SendRequest(...); state.backlog++; state.requested += blockSize;
\* a write error ends the attempt (the deferred call clears the deadline), and
\* past the deadline every write fails
SendRequest(w) ==
    /\ ~panicked
    /\ pc[w] = "loop"
    /\ state[w].downloaded < pieceW[w].length
    /\ CanRequest(client[w], state[w], pieceW[w])
    /\ \E ok \in IF deadline[w] = 0 THEN {FALSE} ELSE WriteOutcomes(w) :
         /\ sent' = [sent EXCEPT ![w] =
                <<[msg |-> formatRequest(pieceW[w].index, state[w].requested,
                                         blockSize(state[w], pieceW[w])),
                   ok |-> ok]>>]
         /\ IF ok
            THEN /\ state' = [state EXCEPT
                       ![w].backlog = @ + 1,
                       ![w].requested = @ + blockSize(state[w], pieceW[w])]
                 /\ UNCHANGED <<pc, deadline>>
            ELSE /\ pc' = [pc EXCEPT ![w] = "failed"]
                 /\ deadline' = [deadline EXCEPT ![w] = NoDeadline]
                 /\ UNCHANGED state
    /\ UNCHANGED <<cfgVars, ioVars, haves, mainVars, workQueue, closed,
                   backoff, client, pieceW, panicked>>

\* a checkState that takes a Bitfield message as the peer's new bitfield
checkState_BitfieldReplaces(cl, st, frame) ==
    LET same == [err |-> FALSE, panic |-> FALSE, client |-> cl, state |-> st]
        fail == [same EXCEPT !.err = TRUE]
    IN
    IF frame.err THEN fail
    ELSE IF frame.msg = NilMsg THEN same
    ELSE IF frame.msg.ID = MsgUnchoke THEN [same EXCEPT !.client.Choked = FALSE]
    ELSE IF frame.msg.ID = MsgChoke THEN [same EXCEPT !.client.Choked = TRUE]
    ELSE IF frame.msg.ID = MsgBitField
    THEN [same EXCEPT !.client.Bitfield = frame.msg.Payload]
    ELSE IF frame.msg.ID = MsgHave
    THEN LET h == parseHaveMessage(frame.msg) IN
         IF h.err THEN fail
         ELSE IF ~InRange(cl.Bitfield, h.index) THEN [same EXCEPT !.panic = TRUE]
         ELSE [same EXCEPT !.client.Bitfield = SetPiece(cl.Bitfield, h.index)]
    ELSE IF frame.msg.ID = MsgPiece
    THEN LET p == parsePieceMessage(st.index, st.buffer, frame.msg) IN
         IF p.err THEN fail
         ELSE [same EXCEPT !.state.buffer = p.buf,
                           !.state.downloaded = @ + p.n,
                           !.state.backlog = @ - 1]
    ELSE same

\* pieceProgress.checkState on the frame read: the client and the progress
\* after it, or an error, or the panic of SetPiece out of range
checkState(cl, st, frame) ==
    LET same == [err |-> FALSE, panic |-> FALSE, client |-> cl, state |-> st]
        fail == [same EXCEPT !.err = TRUE]
    IN
    IF frame.err THEN fail
    ELSE IF frame.msg = NilMsg THEN same
    ELSE IF frame.msg.ID = MsgUnchoke THEN [same EXCEPT !.client.Choked = FALSE]
    ELSE IF frame.msg.ID = MsgChoke THEN [same EXCEPT !.client.Choked = TRUE]
    ELSE IF frame.msg.ID = MsgHave
    THEN LET h == parseHaveMessage(frame.msg) IN
         IF h.err THEN fail
         ELSE IF ~InRange(cl.Bitfield, h.index) THEN [same EXCEPT !.panic = TRUE]
         ELSE [same EXCEPT !.client.Bitfield = SetPiece(cl.Bitfield, h.index)]
    ELSE IF frame.msg.ID = MsgPiece
    THEN LET p == parsePieceMessage(st.index, st.buffer, frame.msg) IN
         IF p.err THEN fail
         ELSE [same EXCEPT !.state.buffer = p.buf,
                           !.state.downloaded = @ + p.n,
                           !.state.backlog = @ - 1]
    ELSE same

\* err := state.checkState(), reached when the issue loop has nothing to
\* send; past the deadline the read fails; an error ends the attempt (the
\* deferred call clears the deadline)
ReadWith(w, frame) ==
    /\ ~panicked
    /\ pc[w] = "loop"
    /\ state[w].downloaded < pieceW[w].length
    /\ ~CanRequest(client[w], state[w], pieceW[w])
    /\ \E r \in {checkState(client[w], state[w], frame)} :
         IF r.panic
         THEN /\ panicked' = TRUE
              /\ UNCHANGED <<pc, client, state, deadline>>
         ELSE IF r.err
         THEN /\ pc' = [pc EXCEPT ![w] = "failed"]
              /\ deadline' = [deadline EXCEPT ![w] = NoDeadline]
              /\ UNCHANGED <<client, state, panicked>>
         ELSE /\ client' = [client EXCEPT ![w] = r.client]
              /\ state' = [state EXCEPT ![w] = r.state]
              /\ UNCHANGED <<pc, deadline, panicked>>
    /\ sent' = [sent EXCEPT ![w] = <<>>]
    /\ UNCHANGED <<cfgVars, haves, mainVars, workQueue, closed,
                   backoff, pieceW>>

\* what client.Read() returns: past the deadline the read fails
ReadableFrames(w) ==
    IF deadline[w] = 0 THEN {[err |-> TRUE, msg |-> NilMsg]} ELSE ReadFrames(w)

Read(w) == \E frame \in ReadableFrames(w) : ReadWith(w, frame) /\ UNCHANGED ioVars

\* the same step, with what ReadMessage returned kept in readMsg
ReadKept(w) ==
    \E frame \in ReadableFrames(w) :
       /\ ReadWith(w, frame)
       /\ readMsg' = [err |-> frame.err, msg |-> frame.msg,
                      n |-> IF frame.err THEN 0 ELSE BLen(Serialize(frame.msg))]
       /\ UNCHANGED wire

\* the attempt returns state.buffer, then checkIntergrityForPiece(pieceW, buf)
Verify(w) ==
    /\ ~panicked
    /\ pc[w] = "loop"
    /\ state[w].downloaded >= pieceW[w].length
    /\ pc' = [pc EXCEPT ![w] =
           IF checkIntergrityForPiece(pieceW[w], state[w].buffer) THEN "have"
           ELSE "mismatch"]
    /\ deadline' = [deadline EXCEPT ![w] = NoDeadline]
    /\ sent' = [sent EXCEPT ![w] = <<>>]
    /\ UNCHANGED <<cfgVars, ioVars, haves, mainVars, workQueue, closed,
                   backoff, client, pieceW, state, panicked>>

\* a deadline that moves away while the attempt goes on, as one set again
\* for every block would
Tick_Extends(w) ==
    /\ ~panicked
    /\ pc[w] = "loop"
    /\ kind[w] \in {"rough", "stalling"}
    /\ deadline[w] > 0
    /\ deadline' = [deadline EXCEPT ![w] = @ + 1]
    /\ UNCHANGED <<cfgVars, ioVars, haves, mainVars, workQueue, closed,
                   workerVars, panicked>>

\* time passes during a piece attempt: client.Conn.SetDeadline(now + 30s)
\* was called once when the attempt began, and nothing moves the deadline;
\* an honest peer and one drawn from the whole menu are prompt, the others
\* may let the deadline run out
Tick(w) ==
    /\ ~panicked
    /\ pc[w] = "loop"
    /\ kind[w] \in {"rough", "stalling"}
    /\ deadline[w] > 0
    /\ deadline' = [deadline EXCEPT ![w] = @ - 1]
    /\ UNCHANGED <<cfgVars, ioVars, haves, mainVars, workQueue, closed,
                   workerVars, panicked>>

-----------------------------------------------------------------------------
(* startDownloadWorker, after the attempt *)

\* a failure path that closes the session and leaves without the send
DownloadFailed_DropsPiece(w) ==
    /\ ~panicked
    /\ pc[w] = "failed"
    /\ pc' = [pc EXCEPT ![w] = "connect"]
    /\ pieceW' = [pieceW EXCEPT ![w] = NoWork]
    /\ state' = [state EXCEPT ![w] = NoProgress]
    /\ client' = [client EXCEPT ![w].open = FALSE]
    /\ sent' = [sent EXCEPT ![w] = <<>>]
    /\ UNCHANGED <<cfgVars, ioVars, haves, deadline, mainVars, closed,
                   backoff, workQueue, panicked>>

\* the attempt failed: client.Conn.Close(); workQueue <- pieceW; break
DownloadFailed(w) ==
    /\ ~panicked
    /\ pc[w] = "failed"
    /\ Requeue(w, "connect")
    /\ client' = [client EXCEPT ![w].open = FALSE]
    /\ sent' = [sent EXCEPT ![w] = <<>>]
    /\ UNCHANGED <<cfgVars, ioVars, haves, deadline, mainVars, closed,
                   backoff>>

\* continue left out: the piece is put back and published as well
RequeueMismatch_AlsoPublishes(w) ==
    /\ ~panicked
    /\ pc[w] = "mismatch"
    /\ ~closed
    /\ Len(workQueue) < NumPieces
    /\ workQueue' = Append(workQueue, pieceW[w])
    /\ pc' = [pc EXCEPT ![w] = "have"]
    /\ sent' = [sent EXCEPT ![w] = <<>>]
    /\ UNCHANGED <<cfgVars, ioVars, haves, deadline, mainVars, closed,
                   backoff, client, pieceW, state, panicked>>

\* a failed hash check handled like a failed download
RequeueMismatch_ClosesSession(w) ==
    /\ ~panicked
    /\ pc[w] = "mismatch"
    /\ Requeue(w, "connect")
    /\ client' = [client EXCEPT ![w].open = FALSE]
    /\ sent' = [sent EXCEPT ![w] = <<>>]
    /\ UNCHANGED <<cfgVars, ioVars, haves, deadline, mainVars, closed,
                   backoff>>

\* a Have announced for the piece that failed the hash check
RequeueMismatch_SendsHave(w) ==
    /\ ~panicked
    /\ pc[w] = "mismatch"
    /\ sent' = [sent EXCEPT ![w] = <<[msg |-> formatHave(pieceW[w].index), ok |-> TRUE]>>]
    /\ haves' = [haves EXCEPT ![pieceW[w].index] = @ + 1]
    /\ Requeue(w, "range")
    /\ UNCHANGED <<cfgVars, ioVars, deadline, mainVars, closed, backoff,
                   client>>

\* the hash check failed: workQueue <- pieceW; continue
RequeueMismatch(w) ==
    /\ ~panicked
    /\ pc[w] = "mismatch"
    /\ Requeue(w, "range")
    /\ sent' = [sent EXCEPT ![w] = <<>>]
    /\ UNCHANGED <<cfgVars, ioVars, haves, deadline, mainVars, closed,
                   backoff, client>>

\* client.SendHave(pieceW.index): the error is dropped; the worker then
\* offers the result on the unbuffered channel (Receive takes it)
SendHave(w) ==
    /\ ~panicked
    /\ pc[w] = "have"
    /\ \E ok \in WriteOutcomes(w) :
         sent' = [sent EXCEPT ![w] = <<[msg |-> formatHave(pieceW[w].index), ok |-> ok]>>]
    /\ haves' = [haves EXCEPT ![pieceW[w].index] = @ + 1]
    /\ pc' = [pc EXCEPT ![w] = "publish"]
    /\ UNCHANGED <<cfgVars, ioVars, deadline, mainVars, workQueue, closed,
                   backoff, client, pieceW, state, panicked>>

-----------------------------------------------------------------------------
(* Specifications *)

InitFrom(torrent, kinds, rawURL) ==
    /\ t = torrent
    /\ kind = kinds
    /\ announce = rawURL
    /\ httpGets = 0
    /\ exitStatus = NoExit
    /\ mainPc = "tracker"
    /\ seedIdx = 0
    /\ spawnIdx = 1
    /\ workQueue = <<>>
    /\ closed = FALSE
    /\ donePieces = 0
    /\ bud = <<>>
    /\ printed = <<>>
    /\ pc = [w \in 1 .. torrent.Peers |-> "idle"]
    /\ backoff = [w \in 1 .. torrent.Peers |-> Second]
    /\ client = [w \in 1 .. torrent.Peers |-> NoClient]
    /\ pieceW = [w \in 1 .. torrent.Peers |-> NoWork]
    /\ state = [w \in 1 .. torrent.Peers |-> NoProgress]
    /\ sent = [w \in 1 .. torrent.Peers |-> <<>>]
    /\ haves = [i \in DOMAIN torrent.PieceHashes |-> 0]
    /\ deadline = [w \in 1 .. torrent.Peers |-> NoDeadline]
    /\ panicked = FALSE
    /\ wire = <<>>
    /\ readMsg = NoRead

\* a torrent whose tracker speaks HTTP
InitWith(torrent, kinds) == InitFrom(torrent, kinds, "http://tracker/announce")

\* the engine: a torrent of two small pieces, every peer unreliable
Init == InitWith(SmallTorrent, [w \in 1 .. NumPeers |-> "rough"])

Next ==
    \/ RequestPeers
    \/ Seed
    \/ Spawn
    \/ Close
    \/ \E w \in Workers : Receive(w)
    \/ \E w \in Workers : Connect(w)
    \/ \E w \in Workers : Sleep(w)
    \/ \E w \in Workers : SendUnchoke(w)
    \/ \E w \in Workers : SendInterested(w)
    \/ \E w \in Workers : Dequeue(w)
    \/ \E w \in Workers : RangeEnds(w)
    \/ \E w \in Workers : RequeueMissing(w)
    \/ \E w \in Workers : SendRequest(w)
    \/ \E w \in Workers : Read(w)
    \/ \E w \in Workers : Verify(w)
    \/ \E w \in Workers : Tick(w)
    \/ \E w \in Workers : DownloadFailed(w)
    \/ \E w \in Workers : RequeueMismatch(w)
    \/ \E w \in Workers : SendHave(w)

Spec == Init /\ [][Next]_vars

\* a Read that ends in an error: the deadline of the attempt expires
ReadFails(w) == Read(w) /\ pc'[w] = "failed"

\* a Read that takes in a block: the peer answers a Request
ReadPiece(w) == Read(w) /\ state'[w].downloaded > state[w].downloaded

\* a Read that ends the choke: the peer unchokes
ReadUnchoke(w) == Read(w) /\ client[w].Choked /\ ~client'[w].Choked

\* the steps of Download
MainRuns == RequestPeers \/ Seed \/ Spawn \/ Close \/ \E w \in Workers : Receive(w)

\* the steps of worker w other than taking an item from the work queue
WorkerRuns(w) ==
    \/ Connect(w) \/ Sleep(w) \/ SendUnchoke(w) \/ SendInterested(w)
    \/ RangeEnds(w) \/ RequeueMissing(w) \/ SendRequest(w) \/ Read(w)
    \/ Verify(w) \/ DownloadFailed(w) \/ RequeueMismatch(w) \/ SendHave(w)

\* the scheduler runs goroutine w whenever it can take a step, a receiver
\* waiting on the work queue gets an item that is sent while it waits, the
\* deadline of an attempt fails a Read sooner or later, a peer that keeps
\* being read does answer an open Request and does end a choke, and time
\* passes
WorkerFairness(w) ==
    /\ WF_vars(WorkerRuns(w))
    /\ SF_vars(Dequeue(w))
    /\ SF_vars(ReadFails(w))
    /\ SF_vars(ReadPiece(w))
    /\ SF_vars(ReadUnchoke(w))
    /\ WF_vars(Tick(w))

\* the engine with one peer that holds every piece and answers every Request
\* with the right bytes, the other peers unreliable
FairInit ==
    InitWith(SmallTorrent, [w \in 1 .. NumPeers |-> IF w = 1 THEN "honest" ELSE "rough"])

Fairness == WF_vars(MainRuns) /\ \A w \in 1 .. NumPeers : WorkerFairness(w)

FairSpec == FairInit /\ [][Next]_vars /\ Fairness

\* the engine on a torrent of one piece of more than MAXBACKLOG blocks, with
\* one peer: an honest one, one that sends what it likes, or one that stalls
SessionInit ==
    \E k \in {"honest", "any", "stalling"} : InitWith(LargeTorrent, <<k>>)

SessionSpec == SessionInit /\ [][Next]_vars /\ WF_vars(MainRuns) /\ WorkerFairness(1)

\* the whole program, from the tracker step on, for every announce URL tried
TrackerInit ==
    \E rawURL \in AnnounceURLs :
       InitFrom(SmallTorrent,
                [w \in 1 .. NumPeers |-> IF w = 1 THEN "honest" ELSE "rough"],
                rawURL)

TrackerSpec == TrackerInit /\ [][Next]_vars

\* the engine with unreliable peers: a swarm in which no peer holds the last
\* piece, or one in which a peer may hold every piece
ScarceInit ==
    \E k \in {"scarce", "rough"} :
       InitWith(SmallTorrent, [w \in 1 .. NumPeers |-> k])

ScarceSpec == ScarceInit /\ [][Next]_vars

\* Download up to the end of its seeding loop, for every payload length N and
\* piece length L within the bounds
LengthInit ==
    \E N \in 1 .. MaxLength : \E L \in 1 .. MaxPieceLength :
       InitWith(MkTorrent(N, L, 1), <<"honest">>)

LengthNext == RequestPeers \/ Seed

LengthSpec == LengthInit /\ [][LengthNext]_vars

\* the payloads that are serialized: none, short ones, those of Have, Request
\* and Piece messages, and one that starts with a zero byte
CodecPayloads ==
    {Run(n, 0) : n \in 0 .. MaxPayloadRun}
    \cup {Run(n, 255) : n \in 1 .. MaxPayloadRun}
    \cup {PutUint32(1), formatRequest(1, BLOCKSIZE, BLOCKSIZE).Payload,
          PieceMsg(0, BLOCKSIZE, Run(BLOCKSIZE, 7)).Payload,
          Norm(Run(1, 0) \o Run(2, 5))}

\* the messages that are serialized: a nil one, and every ID with every payload
CodecMessages ==
    {NilMsg}
    \cup {Msg(id, p) : id \in 0 .. 8 \cup {UnknownID, 255}, p \in CodecPayloads}

\* what follows a message on the connection: nothing, a keep-alive, or the
\* beginning of a frame
CodecTails == {<<>>, Make(4), Run(2, 7)}

\* conn.Write(msg.Serialize()) on an idle connection, for any message, with
\* more bytes behind it
ConnWrite ==
    /\ wire = <<>>
    /\ \E m \in CodecMessages : \E tail \in CodecTails :
         /\ wire' = Norm(Serialize(m) \o tail)
         /\ sent' = [sent EXCEPT ![1] = <<[msg |-> m, ok |-> TRUE]>>]
    /\ readMsg' = NoRead
    /\ UNCHANGED <<cfgVars, haves, deadline, mainVars, workQueue, closed, pc,
                   backoff, client, pieceW, state, panicked>>

\* message.ReadMessage(conn) on the bytes that are on the connection
ConnRead ==
    /\ wire # <<>>
    /\ \E r \in {ReadMessage(wire)} :
         /\ readMsg' = r
         /\ wire' = Drop(wire, r.n)
    /\ UNCHANGED <<cfgVars, haves, deadline, mainVars, workQueue, closed,
                   workerVars, panicked>>

\* the state in which worker 1's NewClient has just returned the session cl,
\* Download waiting for results and the other workers about to connect
SessionAt(torrent, kinds, cl) ==
    /\ t = torrent
    /\ kind = kinds
    /\ announce = "http://tracker/announce"
    /\ httpGets = 1
    /\ exitStatus = NoExit
    /\ mainPc = "recv"
    /\ seedIdx = NumPieces
    /\ spawnIdx = torrent.Peers + 1
    /\ workQueue = [k \in 1 .. NumPieces |->
                      [index |-> k - 1, hash |-> torrent.PieceHashes[k - 1],
                       length |-> calculateLengthForPiece(k - 1)]]
    /\ closed = FALSE
    /\ donePieces = 0
    /\ bud = Make(torrent.Length)
    /\ printed = <<>>
    /\ pc = [w \in 1 .. torrent.Peers |-> IF w = 1 THEN "unchoke" ELSE "connect"]
    /\ backoff = [w \in 1 .. torrent.Peers |-> Second]
    /\ client = [w \in 1 .. torrent.Peers |-> IF w = 1 THEN cl ELSE NoClient]
    /\ pieceW = [w \in 1 .. torrent.Peers |-> NoWork]
    /\ state = [w \in 1 .. torrent.Peers |-> NoProgress]
    /\ sent = [w \in 1 .. torrent.Peers |-> <<>>]
    /\ haves = [i \in DOMAIN torrent.PieceHashes |-> 0]
    /\ deadline = [w \in 1 .. torrent.Peers |-> NoDeadline]
    /\ panicked = FALSE
    /\ wire = <<>>
    /\ readMsg = NoRead

\* the byte values a bitfield is built from: no bit, the low bit, the high
\* bit, a mixed pattern, every bit
ProbeBytes == {0, 1, 128, 165, 255}

\* the bitfields a peer sends: every string of 1 .. MaxBitfieldBytes bytes
\* over ProbeBytes
RECURSIVE BitfieldsOfLen(_)
BitfieldsOfLen(n) ==
    IF n = 0 THEN {<<>>}
    ELSE {Norm(Run(1, b) \o rest) : b \in ProbeBytes, rest \in BitfieldsOfLen(n - 1)}

ProbeBitfields == UNION {BitfieldsOfLen(n) : n \in 1 .. MaxBitfieldBytes}

\* the indices that Have messages carry: the first and the last bit of each
\* byte, and one in the middle
ProbeIndices == {8 * k + o : k \in 0 .. MaxBitfieldBytes - 1, o \in {0, 3, 7}}

\* worker 1's session holds any of the bitfields
BitfieldInit ==
    \E bf \in ProbeBitfields :
       SessionAt(SmallTorrent, [w \in 1 .. NumPeers |-> "rough"],
                 [open |-> TRUE, Choked |-> TRUE, Bitfield |-> bf])

\* index, err := parseHaveMessage(msg); state.client.Bitfield.SetPiece(index)
\* on a Have message whose index is inside the session's bitfield
HaveSetsPiece ==
    /\ ~panicked
    /\ \E i \in ProbeIndices : \E h \in {parseHaveMessage(formatHave(i))} :
         /\ ~h.err
         /\ InRange(client[1].Bitfield, h.index)
         /\ readMsg' = [err |-> FALSE, msg |-> formatHave(i), n |-> 9]
         /\ client' = [client EXCEPT ![1].Bitfield = SetPiece(@, h.index)]
    /\ UNCHANGED <<cfgVars, wire, haves, deadline, mainVars, workQueue, closed,
                   pc, backoff, pieceW, state, sent, panicked>>

BitfieldNext == HaveSetsPiece

\* the bitfield of a session alone: bits are set and checked
BitfieldSpec == BitfieldInit /\ [][BitfieldNext]_vars

\* the engine on a torrent of one piece of a few blocks, with the frames read
\* kept: one peer that sends what it likes, or one that stalls
KeptInit == \E k \in {"any", "stalling"} : InitWith(MidTorrent, <<k>>)

KeptNext ==
    \/ RequestPeers
    \/ Seed
    \/ Spawn
    \/ Close
    \/ \E w \in Workers : Receive(w)
    \/ \E w \in Workers : Connect(w)
    \/ \E w \in Workers : Sleep(w)
    \/ \E w \in Workers : SendUnchoke(w)
    \/ \E w \in Workers : SendInterested(w)
    \/ \E w \in Workers : Dequeue(w)
    \/ \E w \in Workers : RangeEnds(w)
    \/ \E w \in Workers : RequeueMissing(w)
    \/ \E w \in Workers : SendRequest(w)
    \/ \E w \in Workers : ReadKept(w)
    \/ \E w \in Workers : Verify(w)
    \/ \E w \in Workers : Tick(w)
    \/ \E w \in Workers : DownloadFailed(w)
    \/ \E w \in Workers : RequeueMismatch(w)
    \/ \E w \in Workers : SendHave(w)

KeptSpec == KeptInit /\ [][KeptNext]_vars

\* the engine with the frames kept, on the torrent of two pieces with one
\* peer, so that one session serves a piece after another
SeriesInit ==
    \E k \in {"any", "rough"} : InitWith([SmallTorrent EXCEPT !.Peers = 1], <<k>>)

SeriesSpec == SeriesInit /\ [][KeptNext]_vars

CodecNext == ConnWrite \/ ConnRead

\* the wire codec alone: messages are written to a connection and read back
CodecSpec == Init /\ [][CodecNext]_vars

-----------------------------------------------------------------------------
(* Claims about the engine, checked under Spec *)

\* the indices of the results Download has received
Received == {printed[k] : k \in 1 .. Len(printed)}

\* bud[begin:end] for piece i
PieceRange(i) ==
    Slice(bud, calculateBoundsForPiece(i).begin, calculateBoundsForPiece(i).end)

\* every piece has been delivered with correct bytes: it has been received
\* by Download, or a worker holds all of its bytes and they hash to its hash
AllDelivered ==
    \A i \in AllPieces :
      \/ i \in Received
      \/ \E w \in Workers :
           /\ pieceW[w].index = i
           /\ state[w].downloaded >= pieceW[w].length
           /\ sha1Sum(state[w].buffer) = pieceW[w].hash

\* C1: under fair scheduling of Download, of the workers and of the work
\* queue, once the peers have delivered every piece with correct bytes
\* Download returns, and bud then holds at every piece index bytes that hash
\* to that piece's hash.
C1_DownloadTerminates ==
    AllDelivered ~>
      (mainPc = "done"
       /\ \A i \in AllPieces : sha1Sum(PieceRange(i)) = t.PieceHashes[i])

\* C2: every buffer a worker announces with Have and offers on the result
\* channel hashes to the expected hash of its own piece index, and in the
\* output buffer the range of every received piece hashes to that piece's
\* hash while the range of every other piece is still untouched.
C2_OnlyVerifiedData ==
    /\ \A w \in Workers :
         pc[w] \in {"have", "publish"} =>
           sha1Sum(state[w].buffer) = t.PieceHashes[pieceW[w].index]
    /\ mainPc \in {"recv", "done"} =>
         \A i \in AllPieces :
           IF i \in Received
           THEN sha1Sum(PieceRange(i)) = t.PieceHashes[i]
           ELSE PieceRange(i) = Make(calculateLengthForPiece(i))

\* a verified piece is on offer while another one is already in the buffer
C2_Witness == \E w \in Workers : pc[w] = "publish" /\ Len(printed) >= 1

\* C3: the back-off never exceeds 30 seconds, in any state of any worker.
C3_BackoffAtMost30 == \A w \in Workers : backoff[w] <= BackoffLimit * Second

\* C4: the step that handles a failed download attempt closes the session,
\* puts the piece back on the queue once, and leaves the worker sleeping its
\* back-off before it connects again.
C4_FailureBacksOff ==
    [][\A w \in Workers :
         (pc[w] = "failed" /\ pc'[w] # "failed") =>
           /\ ~client'[w].open
           /\ workQueue' = Append(workQueue, pieceW[w])
           /\ pc'[w] = "sleep"]_vars

\* C5: once the work queue is closed no worker makes a connect attempt.
C5_NoConnectAfterClose ==
    [][closed => \A w \in Workers : ~(pc[w] = "connect" /\ pc'[w] # "connect")]_vars

\* C6: the results received carry pairwise distinct piece indices and are
\* counted by donePieces; Download has returned only if exactly
\* len(PieceHashes) results were received and they cover every index; the
\* work queue is closed only by the returning Download.
C6_ExactlyAllPieces ==
    /\ \A j, k \in 1 .. Len(printed) : j # k => printed[j] # printed[k]
    /\ donePieces = Len(printed)
    /\ mainPc = "done" => (donePieces = NumPieces /\ Received = AllPieces)
    /\ closed => mainPc = "done"

\* Download has returned
C6_Witness == mainPc = "done" /\ closed /\ Len(printed) = NumPieces

\* C7: the step a worker takes after a failed hash check appends its piece to
\* the work queue once and hands it over, sends nothing (no Have), offers no
\* result, and leaves the worker on the same session, choke state included,
\* at the head of the work loop; and when Download has returned every piece
\* has been counted.
C7_MismatchRequeues ==
    /\ [][\A w \in Workers :
            (pc[w] = "mismatch" /\ pc'[w] # "mismatch") =>
              /\ workQueue' = Append(workQueue, pieceW[w])
              /\ pieceW'[w] = NoWork
              /\ sent'[w] = <<>>
              /\ printed' = printed
              /\ client'[w] = client[w]
              /\ pc'[w] = "range"]_vars
    /\ [](mainPc = "done" => (donePieces = NumPieces /\ Received = AllPieces))

\* a downloaded piece failed the hash check on an open, unchoked session
C7_Witness ==
    \E w \in Workers :
      /\ pc[w] = "mismatch"
      /\ client[w].open /\ ~client[w].Choked
      /\ sha1Sum(state[w].buffer) # pieceW[w].hash

\* C8: a worker that holds a piece its peer's bitfield lacks has sent nothing
\* and started no attempt, and its next step appends the piece to the work
\* queue once and hands it over, sends nothing, and leaves the worker on the
\* same open session at the head of the work loop.
C8_MissingRequeues ==
    /\ [][\A w \in Workers :
            (pc[w] = "missing" /\ pc'[w] # "missing") =>
              /\ workQueue' = Append(workQueue, pieceW[w])
              /\ pieceW'[w] = NoWork
              /\ sent'[w] = <<>>
              /\ client'[w] = client[w]
              /\ pc'[w] = "range"]_vars
    /\ [](\A w \in Workers :
            pc[w] = "missing" =>
              /\ ~CheckPiece(client[w].Bitfield, pieceW[w].index)
              /\ sent[w] = <<>>
              /\ state[w] = NoProgress
              /\ client[w].open)

\* a worker holds a piece that its peer lacks while the peer has another one
C8_Witness ==
    \E w \in Workers :
      /\ pc[w] = "missing"
      /\ \E i \in AllPieces : CheckPiece(client[w].Bitfield, i)

-----------------------------------------------------------------------------
(* Claims about one session, checked under SessionSpec *)

\* the step is worker w writing a Request to its connection
IssuesRequest(w) ==
    /\ pc[w] = "loop"
    /\ sent'[w] # <<>>
    /\ state'[w] # state[w] \/ pc'[w] # pc[w]

\* C9: a worker writes a Request only on an unchoked session (a new session
\* is choked until an Unchoke is read, and a Choke chokes it again); a block
\* read while choked is still taken in and lowers the backlog by one; on an
\* unchoked session with room in the backlog and bytes left to ask for, the
\* worker's next step is the Request at offset requested; and on a session
\* whose peer answers every Request, a piece attempt ends with the piece
\* complete and verified.
C9_ChokeStopsRequests ==
    /\ [][\A w \in Workers : IssuesRequest(w) => ~client[w].Choked]_vars
    /\ [][\A w \in Workers :
            (pc[w] = "loop" /\ client[w].Choked /\ ~client'[w].Choked) =>
              state'[w] = state[w]]_vars
    /\ [][\A w \in Workers :
            (pc[w] = "loop" /\ client[w].Choked
               /\ state'[w].downloaded > state[w].downloaded) =>
              /\ state'[w].backlog = state[w].backlog - 1
              /\ state'[w].requested = state[w].requested
              /\ client'[w].Choked
              /\ pc'[w] = "loop"]_vars
    /\ [][\A w \in Workers :
            (pc[w] = "loop" /\ ~client[w].Choked
               /\ state[w].downloaded < pieceW[w].length
               /\ state[w].backlog < MAXBACKLOG
               /\ state[w].requested < pieceW[w].length
               /\ <<pc[w], state[w], client[w], sent[w]>>'
                    # <<pc[w], state[w], client[w], sent[w]>>) =>
              /\ sent'[w] # <<>>
              /\ sent'[w][1].msg =
                   formatRequest(pieceW[w].index, state[w].requested,
                                 Min(BLOCKSIZE, pieceW[w].length - state[w].requested))
              /\ client'[w] = client[w]]_vars
    /\ (kind[1] = "honest" /\ pc[1] = "loop") ~> (pc[1] = "have")

\* the session was choked with part of the piece asked for, blocks were taken
\* in during the choke, and the choke has ended with bytes left to ask for
C9_Witness ==
    /\ kind[1] = "honest"
    /\ pc[1] = "loop"
    /\ ~client[1].Choked
    /\ state[1].requested >= MAXBACKLOG * BLOCKSIZE
    /\ state[1].requested < pieceW[1].length
    /\ state[1].backlog < MAXBACKLOG - 1

\* C10: in every reachable state the backlog of every worker's piece attempt
\* is at most MAXBACKLOG, whatever the peer has sent.
C10_BacklogAtMostMax == \A w \in Workers : state[w].backlog <= MAXBACKLOG

\* the backlog is full while bytes of the piece are still to be asked for
C10_Witness ==
    \E w \in Workers :
      /\ pc[w] = "loop"
      /\ state[w].backlog = MAXBACKLOG
      /\ state[w].requested < pieceW[w].length

\* the begin offset and the length a Request message carries
RequestBegin(m) == Uint32(Slice(m.Payload, 4, 8))
RequestLength(m) == Uint32(Slice(m.Payload, 8, 12))

\* C11: an attempt starts with requested = 0; every Request written carries
\* the piece's index, begin = requested and length = min(BLOCKSIZE, piece
\* length - begin), a positive length, and a Request that is written moves
\* requested to begin + length; requested never decreases within an attempt,
\* never exceeds the piece length, and is a multiple of BLOCKSIZE or the piece
\* length itself: the requested ranges are consecutive from 0, so none is
\* asked for twice and at requested = length they partition the piece.
C11_RequestsPartition ==
    /\ [][\A w \in Workers :
            (pc[w] = "range" /\ pc'[w] = "loop") => state'[w].requested = 0]_vars
    /\ [][\A w \in Workers :
            IssuesRequest(w) =>
              /\ sent'[w][1].msg.ID = MsgRequest
              /\ BLen(sent'[w][1].msg.Payload) = 12
              /\ Uint32(Slice(sent'[w][1].msg.Payload, 0, 4)) = pieceW[w].index
              /\ RequestBegin(sent'[w][1].msg) = state[w].requested
              /\ RequestLength(sent'[w][1].msg) =
                   Min(BLOCKSIZE, pieceW[w].length - state[w].requested)
              /\ RequestLength(sent'[w][1].msg) > 0
              /\ sent'[w][1].ok =>
                   state'[w].requested =
                     state[w].requested + RequestLength(sent'[w][1].msg)]_vars
    /\ [][\A w \in Workers :
            (pc[w] = "loop" /\ pc'[w] = "loop") =>
              /\ state'[w].requested >= state[w].requested
              /\ state'[w].requested # state[w].requested => IssuesRequest(w)]_vars
    /\ [](\A w \in Workers :
            pc[w] = "loop" =>
              /\ state[w].requested <= pieceW[w].length
              /\ \/ state[w].requested % BLOCKSIZE = 0
                 \/ state[w].requested = pieceW[w].length)

\* the last, short Request of a piece of many blocks has been written
C11_Witness ==
    \E w \in Workers :
      /\ pc[w] = "loop"
      /\ state[w].requested = pieceW[w].length
      /\ sent[w] # <<>>
      /\ sent[w][1].msg.ID = MsgRequest
      /\ RequestBegin(sent[w][1].msg) = LargeBlocks * BLOCKSIZE
      /\ RequestLength(sent[w][1].msg) = LargeResidual

-----------------------------------------------------------------------------
(* Claims about the whole run, checked under Spec *)

\* worker w is past a successful connect: it has a session, or had one and
\* has not failed to connect since
HadSession(w) == client[w] # NoClient

\* C24: a successful connect leaves the back-off at one second whatever it
\* was; the back-off stays at one second for as long as the worker is on a
\* session and when it goes back to connect; and when the connect attempt
\* that follows a session fails, the worker sleeps with a back-off of one
\* second.
C24_BackoffResetOnConnect ==
    /\ [][\A w \in Workers :
            (pc[w] = "connect" /\ pc'[w] = "unchoke") =>
              backoff'[w] = Second]_vars
    /\ [](\A w \in Workers :
            pc[w] \notin {"idle", "connect", "sleep"} => backoff[w] = Second)
    /\ [][\A w \in Workers :
            (pc[w] \notin {"idle", "connect", "sleep"} /\ pc'[w] = "connect") =>
              backoff'[w] = Second]_vars
    /\ [][\A w \in Workers :
            (pc[w] = "connect" /\ HadSession(w) /\ pc'[w] = "sleep") =>
              /\ backoff[w] = Second
              /\ backoff'[w] = Second]_vars

\* the only worker started so far has had a session (it took the first piece
\* from the queue and put it back), and its connect attempt after that
\* session has failed: it sleeps with a back-off of one second
C24_Witness ==
    /\ mainPc = "spawn"
    /\ spawnIdx = 2
    /\ pc[1] = "sleep"
    /\ backoff[1] = Second
    /\ Len(workQueue) = NumPieces
    /\ Head(workQueue).index # 0

\* piece i is on offer on the result channel
OnOffer(i) == \E w \in Workers : pc[w] = "publish" /\ pieceW[w].index = i

CopiesResult(w) ==
    /\ mainPc = "recv"
    /\ pc[w] = "publish" /\ pc'[w] = "range"
    /\ printed' = Append(printed, pieceW[w].index)
    /\ pieceW[w].index \notin Received
    /\ LET b == calculateBoundsForPiece(pieceW[w].index) IN
       /\ Slice(bud', b.begin, b.end) = state[w].buffer
       /\ Take(bud', b.begin) = Take(bud, b.begin)
       /\ Drop(bud', b.end) = Drop(bud, b.end)

\* C13: the bounds of piece i are [i*L, min((i+1)*L, N)) and the ranges of
\* different pieces are disjoint; bud changes only when Download allocates it
\* or receives a result, never in a worker's step; a received result is
\* copied to the range of its piece, for a piece not received before, and
\* leaves the rest of bud as it was; and when Download has returned bud is
\* the payload, whatever the order in which the pieces were received.
C13_DisjointWrites ==
    /\ [](\A i \in AllPieces :
            calculateBoundsForPiece(i) =
              [begin |-> i * t.PieceLength,
               end |-> Min((i + 1) * t.PieceLength, t.Length)])
    /\ [](\A i, j \in AllPieces :
            i < j => calculateBoundsForPiece(i).end <= calculateBoundsForPiece(j).begin)
    /\ [][bud' # bud =>
            \/ mainPc = "spawn" /\ bud' = Make(t.Length) /\ UNCHANGED printed
            \/ \E w \in Workers : CopiesResult(w)]_vars
    /\ [][printed' # printed => \E w \in Workers : CopiesResult(w)]_vars
    /\ [](mainPc = "done" => bud = PayloadFrom(0))

\* Download has returned after receiving the last piece first
C13_Witness == mainPc = "done" /\ printed = <<1, 0>> /\ bud = PayloadFrom(0)

\* C14 as stated: the result channel is unbounded, so a worker's publish
\* completes in a step of its own, in which Download receives nothing.
C14_PublishNeverWaits ==
    [][\A w \in Workers :
         (pc[w] = "publish" /\ pc'[w] # "publish") =>
           UNCHANGED <<donePieces, bud, printed>>]_vars

\* C14, amended: the result channel is unbuffered.  A worker's publish
\* completes only in the step in which Download receives that result and
\* counts it; until then the worker waits; and the wait ends, because while
\* a worker is offering a result Download has not yet counted all the pieces
\* and has not returned.
C14_PublishIsRendezvous ==
    /\ [][\A w \in Workers :
            (pc[w] = "publish" /\ pc'[w] # "publish") =>
              /\ mainPc = "recv"
              /\ donePieces' = donePieces + 1
              /\ printed' = Append(printed, pieceW[w].index)
              /\ pc'[w] = "range"]_vars
    /\ [](\A w \in Workers :
            pc[w] = "publish" =>
              /\ mainPc \in {"spawn", "recv"}
              /\ mainPc = "recv" => donePieces < NumPieces)

\* a worker offers its result while Download is still starting workers and
\* cannot receive: the worker is suspended on the result channel
C14_Witness == \E w \in Workers : pc[w] = "publish" /\ mainPc = "spawn"

\* the step is worker w writing a message to its connection
Writes(w) == sent'[w] # sent[w] /\ sent'[w] # <<>>

\* C15: a step in which a worker's write of Unchoke, Interested, Have or
\* Request fails takes the worker to the failure path, the one that closes
\* the session and goes back to connect; the worker does not go on with the
\* work loop on that session.
C15_WriteErrorFailsSession ==
    [][\A w \in Workers :
         (Writes(w) /\ ~sent'[w][1].ok) => pc'[w] = "failed"]_vars

-----------------------------------------------------------------------------
(* More claims about one session, checked under SessionSpec *)

\* C16: no step taken while the one worker is connecting crashes the
\* process; a connect attempt ends either with an open session, at the
\* Unchoke send, or with no session, at the back-off sleep.
C16_ConnectNeverCrashes ==
    [][\A w \in Workers :
         pc[w] = "connect" =>
           /\ ~panicked'
           /\ pc'[w] \in {"connect", "unchoke", "sleep"}
           /\ pc'[w] = "unchoke" => client'[w].open
           /\ pc'[w] = "sleep" => ~client'[w].open]_vars

\* the peer of worker w delivered part of the piece and then went silent
Stalled(w) ==
    /\ kind[w] = "stalling"
    /\ pc[w] = "loop"
    /\ 0 < state[w].downloaded
    /\ state[w].downloaded < pieceW[w].length

\* C17: a piece attempt begins with the full deadline, and no step of the
\* attempt, a block arriving included, moves the deadline further away; every
\* step that leaves the attempt leaves the connection with no deadline; a
\* failed attempt is followed by the session being closed and the piece put
\* back at the end of the work queue; and when the peer goes silent in the
\* middle of a piece, the attempt can only end in that failure path, and it
\* does end: the worker is back at connect with the session closed.
C17_DeadlineCoversAttempt ==
    /\ [][\A w \in Workers :
            (pc[w] # "loop" /\ pc'[w] = "loop") =>
              deadline'[w] = DeadlineTicks]_vars
    /\ [][\A w \in Workers :
            (pc[w] = "loop" /\ pc'[w] = "loop") =>
              deadline'[w] <= deadline[w]]_vars
    /\ [][\A w \in Workers :
            (pc[w] = "loop" /\ pc'[w] # "loop") =>
              deadline'[w] = NoDeadline]_vars
    /\ [](\A w \in Workers : pc[w] # "loop" => deadline[w] = NoDeadline)
    /\ [][\A w \in Workers :
            (pc[w] = "failed" /\ pc'[w] # "failed") =>
              /\ ~client'[w].open
              /\ workQueue' = Append(workQueue, pieceW[w])
              /\ pc'[w] = "connect"]_vars
    /\ [][\A w \in Workers :
            (Stalled(w) /\ pc'[w] # "loop") => pc'[w] = "failed"]_vars
    /\ Stalled(1) ~> (pc[1] = "connect" /\ ~client[1].open)

\* the silent peer's deadline has run out in the middle of a piece
C17_Witness == Stalled(1) /\ deadline[1] = 0

-----------------------------------------------------------------------------
(* Claims about the tracker step, checked under TrackerSpec *)

\* the announce URL parses and its scheme is neither http nor https
SchemeUnsupported ==
    /\ ~urlParse(announce).err
    /\ urlParse(announce).Scheme \notin {"http", "https"}

\* C18: when the announce URL's scheme is neither http nor https, the
\* tracker step is a single step that issues no HTTP GET and ends the
\* process with status 1; at no time has a GET been issued, a worker been
\* started, a connection been opened or Download been entered.
C18_UnsupportedSchemeExits ==
    /\ [][(SchemeUnsupported /\ mainPc = "tracker") =>
            /\ mainPc' = "exit"
            /\ exitStatus' = 1
            /\ httpGets' = httpGets]_vars
    /\ [](SchemeUnsupported =>
            /\ httpGets = 0
            /\ mainPc \in {"tracker", "exit"}
            /\ mainPc = "exit" => exitStatus = 1
            /\ workQueue = <<>>
            /\ \A w \in Workers : pc[w] = "idle" /\ client[w] = NoClient)

\* the process has exited on a udp announce URL
C18_Witness ==
    /\ urlParse(announce).Scheme = "udp"
    /\ mainPc = "exit"
    /\ exitStatus = 1

\* C23: in every state of a piece attempt, whatever the peer has sent, the
\* bytes asked for are at least the bytes taken in, the bytes taken in are at
\* most the piece length, and the backlog (one up for every Request written,
\* one down for every Piece taken in) is not negative.
C23_ProgressInvariants ==
    \A w \in Workers :
       pc[w] = "loop" =>
         /\ state[w].requested >= state[w].downloaded
         /\ state[w].downloaded <= pieceW[w].length
         /\ state[w].backlog >= 0

-----------------------------------------------------------------------------
(* Claims about a swarm that lacks a piece, checked under ScarceSpec *)

\* no peer of the swarm holds the last piece
Scarce == \A w \in Workers : kind[w] = "scarce"

\* the piece index a Request message carries
RequestIndex(m) == Uint32(Slice(m.Payload, 0, 4))

\* C19: in a swarm where no peer holds piece i (no session's bitfield has
\* bit i), no worker ever starts an attempt for piece i or writes a Request
\* that carries index i; a worker that takes piece i from the work queue
\* finds it missing, and its next step puts the piece back on the queue; no
\* Have is sent and no result received for i; donePieces stays below the
\* piece count, the work queue is never closed and Download never returns.
C19_MissingPieceNeverDone ==
    /\ [](Scarce =>
            \A w \in Workers :
               /\ pc[w] \in {"loop", "failed", "mismatch", "have", "publish"}
                    => pieceW[w].index # ScarcePiece
               /\ (sent[w] # <<>> /\ sent[w][1].msg.ID = MsgRequest)
                    => RequestIndex(sent[w][1].msg) # ScarcePiece)
    /\ [][Scarce =>
            \A w \in Workers :
               (pc[w] = "range" /\ pieceW'[w] # NoWork
                  /\ pieceW'[w].index = ScarcePiece /\ ~panicked') =>
                 /\ pc'[w] = "missing"
                 /\ sent'[w] = <<>>]_vars
    /\ [][Scarce =>
            \A w \in Workers :
               (pc[w] = "missing" /\ pc'[w] # "missing") =>
                 /\ workQueue' = Append(workQueue, pieceW[w])
                 /\ pc'[w] = "range"]_vars
    /\ [](Scarce =>
            /\ haves[ScarcePiece] = 0
            /\ ScarcePiece \notin Received
            /\ donePieces < NumPieces
            /\ ~closed
            /\ mainPc # "done")

\* every other piece has been received and a worker has just found the
\* missing piece missing once more
C19_Witness ==
    /\ Scarce
    /\ mainPc = "recv"
    /\ donePieces = NumPieces - 1
    /\ \E w \in Workers :
         pc[w] = "missing" /\ pieceW[w].index = ScarcePiece

-----------------------------------------------------------------------------
(* Claims about the piece lengths, checked under LengthSpec *)

\* the sum of the lengths the engine computes for pieces i .. NumPieces - 1
RECURSIVE LengthsFrom(_)
LengthsFrom(i) ==
    IF i >= NumPieces THEN 0 ELSE calculateLengthForPiece(i) + LengthsFrom(i + 1)

\* C20: for every piece index i of a torrent of N bytes in pieces of L bytes,
\* the length the engine computes is min(L, N - i * L), it is positive, and it
\* is L for every piece but the last; the lengths of all pieces sum to N; and
\* the k-th pieceWork put on the work queue carries index k - 1 and that
\* length.
C20_PieceLengths ==
    /\ NumPieces = (t.Length + t.PieceLength - 1) \div t.PieceLength
    /\ \A i \in AllPieces :
         /\ calculateLengthForPiece(i) = Min(t.PieceLength, t.Length - i * t.PieceLength)
         /\ calculateLengthForPiece(i) > 0
         /\ i < NumPieces - 1 => calculateLengthForPiece(i) = t.PieceLength
    /\ LengthsFrom(0) = t.Length
    /\ \A k \in 1 .. Len(workQueue) :
         /\ workQueue[k].index = k - 1
         /\ workQueue[k].length =
              Min(t.PieceLength, t.Length - (k - 1) * t.PieceLength)
    /\ mainPc = "spawn" => Len(workQueue) = NumPieces

\* the seeding loop has ended on a torrent of several pieces whose last
\* piece is shorter than the others
C20_Witness ==
    /\ mainPc = "spawn"
    /\ NumPieces >= 3
    /\ t.Length % t.PieceLength # 0
    /\ workQueue[NumPieces].length < t.PieceLength

-----------------------------------------------------------------------------
(* Claims about the wire codec, checked under CodecSpec *)

\* the step is the first ReadMessage after a message was written
FirstRead == sent[1] # <<>> /\ readMsg = NoRead /\ wire' # wire

\* C21: the first ReadMessage after Serialize of a message that is not nil
\* returns no error and a message with the same ID and the same payload
\* bytes, and takes exactly 4 + 1 + len(Payload) bytes from the connection,
\* leaving what follows; a nil message is serialized as exactly four zero
\* bytes, and reading it returns no message and no error and takes those
\* four bytes.
C21_RoundTrip ==
    /\ [](Serialize(NilMsg) = Run(4, 0))
    /\ [][FirstRead =>
            LET m == sent[1][1].msg IN
            /\ ~readMsg'.err
            /\ m # NilMsg =>
                 /\ readMsg'.msg # NilMsg
                 /\ readMsg'.msg.ID = m.ID
                 /\ readMsg'.msg.Payload = m.Payload
                 /\ readMsg'.n = 4 + 1 + BLen(m.Payload)
            /\ m = NilMsg =>
                 /\ readMsg'.msg = NilMsg
                 /\ readMsg'.n = 4
            /\ BLen(wire') = BLen(wire) - readMsg'.n
            /\ wire' \in CodecTails]_vars

\* a Piece message of a whole block has been read back, with a keep-alive
\* still on the connection
C21_Witness ==
    /\ sent[1] # <<>>
    /\ sent[1][1].msg = PieceMsg(0, BLOCKSIZE, Run(BLOCKSIZE, 7))
    /\ readMsg.msg = sent[1][1].msg
    /\ wire = Make(4)

-----------------------------------------------------------------------------
(* Claims about the bitfield, checked under BitfieldSpec *)

\* bit k of the byte b, bit 0 being the lowest
Bit(b, k) == (b \div Pow2(k)) % 2

\* the indices within the bit length of the bitfield bt
BitIndices(bt) == 0 .. 8 * BLen(bt) - 1

\* SetPiece(i) on bt gives a bitfield of the same length where CheckPiece(i)
\* holds, CheckPiece(j) is as before for every other j, and the only bit that
\* may have changed is bit 7 - i mod 8 of byte i div 8, which is set
SetsOnlyBit(bt, i) ==
    \E after \in {SetPiece(bt, i)} :
       /\ BLen(after) = BLen(bt)
       /\ CheckPiece(after, i)
       /\ \A j \in BitIndices(bt) \ {i} : CheckPiece(after, j) = CheckPiece(bt, j)
       /\ \A k \in 0 .. BLen(bt) - 1 : \A o \in 0 .. 7 :
            Bit(BAt(after, k), o) =
              IF k = i \div 8 /\ o = 7 - (i % 8) THEN 1 ELSE Bit(BAt(bt, k), o)

\* C22: for the bitfield of the session and every index i within its bit
\* length, CheckPiece(i) reads bit 7 - i mod 8 of byte i div 8, and SetPiece(i)
\* sets that bit and no other; and the SetPiece that a Have message causes
\* leaves the session with CheckPiece true at the message's index and
\* unchanged at every other index.
C22_SetThenCheck ==
    /\ [](\A i \in BitIndices(client[1].Bitfield) :
            /\ CheckPiece(client[1].Bitfield, i) =
                 (Bit(BAt(client[1].Bitfield, i \div 8), 7 - (i % 8)) = 1)
            /\ SetsOnlyBit(client[1].Bitfield, i))
    /\ [][readMsg' # readMsg =>
            LET i == Uint32(readMsg'.msg.Payload) IN
            /\ CheckPiece(client'[1].Bitfield, i)
            /\ \A j \in BitIndices(client[1].Bitfield) \ {i} :
                 CheckPiece(client'[1].Bitfield, j) = CheckPiece(client[1].Bitfield, j)]_vars

\* a Have has set bit 3 of the second byte of a bitfield that had only the
\* high bit of its first byte and the low bit of its second
C22_Witness ==
    /\ readMsg.msg = formatHave(11)
    /\ client[1].Bitfield = Norm(Run(1, 128) \o Run(1, 17))

-----------------------------------------------------------------------------
(* Claims about the frames read during an attempt, checked under KeptSpec *)

\* the step is worker w's checkState: the frame read is in readMsg afterwards
ReadStep(w) ==
    /\ pc[w] = "loop"
    /\ state[w].downloaded < pieceW[w].length
    /\ ~CanRequest(client[w], state[w], pieceW[w])
    /\ deadline'[w] # deadline[w] - 1
    /\ ~panicked'

\* the frame read is a message with the ID id
ReadsID(id) == ~readMsg'.err /\ readMsg'.msg # NilMsg /\ readMsg'.msg.ID = id

\* the begin offset and the block data of a Piece payload of 8 bytes or more
PieceBegin(payload) == Uint32(Slice(payload, 4, 8))
PieceData(payload) == Drop(payload, 8)

\* the conditions under which a Piece payload is to be accepted for the piece
\* pw
Acceptable(payload, pw) ==
    /\ BLen(payload) >= 8
    /\ Uint32(Slice(payload, 0, 4)) = pw.index
    /\ PieceBegin(payload) < pw.length
    /\ PieceBegin(payload) + BLen(PieceData(payload)) <= pw.length

\* C25: when a worker reads a Piece message, the payload is accepted exactly
\* when it has 8 bytes or more, carries the index of the piece in hand, begin
\* is below the piece length and begin + len(data) is at most the piece
\* length; an accepted payload leaves the buffer with the data at begin and
\* every other byte as before, raises downloaded by len(data) and lowers the
\* backlog by one; a rejected one leaves the progress as it was and takes the
\* worker to the failure path, whose next step closes the session.
C25_PieceAccepted ==
    /\ [][\A w \in Workers :
            (ReadStep(w) /\ ReadsID(MsgPiece)) =>
              LET payload == readMsg'.msg.Payload IN
              IF Acceptable(payload, pieceW[w])
              THEN LET begin == PieceBegin(payload)
                       data == PieceData(payload)
                   IN  /\ pc'[w] = "loop"
                       /\ BLen(state'[w].buffer) = pieceW[w].length
                       /\ Slice(state'[w].buffer, begin, begin + BLen(data)) = data
                       /\ Take(state'[w].buffer, begin) = Take(state[w].buffer, begin)
                       /\ Drop(state'[w].buffer, begin + BLen(data)) =
                            Drop(state[w].buffer, begin + BLen(data))
                       /\ state'[w].downloaded = state[w].downloaded + BLen(data)
                       /\ state'[w].backlog = state[w].backlog - 1
                       /\ state'[w].requested = state[w].requested
              ELSE /\ pc'[w] = "failed"
                   /\ state'[w] = state[w]]_vars
    /\ [][\A w \in Workers :
            (pc[w] = "failed" /\ pc'[w] # "failed") => ~client'[w].open]_vars

\* a block that begins past the start of the piece has been accepted
C25_Witness ==
    /\ pc[1] = "loop"
    /\ ~readMsg.err
    /\ readMsg.msg.ID = MsgPiece
    /\ PieceBegin(readMsg.msg.Payload) = BLOCKSIZE
    /\ state[1].downloaded = 2 * BLOCKSIZE
    /\ Slice(state[1].buffer, 0, 2 * BLOCKSIZE) = Slice(TrueContent(0), 0, 2 * BLOCKSIZE)

\* the IDs checkState acts on
HandledIDs == {MsgChoke, MsgUnchoke, MsgHave, MsgPiece}

\* the frame read is a keep-alive or a message whose ID checkState does not
\* act on
ReadsIgnored ==
    /\ ~readMsg'.err
    /\ readMsg'.msg = NilMsg \/ readMsg'.msg.ID \notin HandledIDs

\* C26: a keep-alive, or a message whose ID is none of Choke, Unchoke, Have
\* and Piece, read during the receive phase of an attempt is ignored: the
\* attempt goes on without an error, and the choked flag, the bitfield, the
\* buffer and the downloaded, requested and backlog counts are as before.
C26_OtherFramesIgnored ==
    [][\A w \in Workers :
         (ReadStep(w) /\ ReadsIgnored) =>
            /\ pc'[w] = "loop"
            /\ client'[w] = client[w]
            /\ state'[w] = state[w]
            /\ pieceW'[w] = pieceW[w]
            /\ deadline'[w] = deadline[w]]_vars

\* a Bitfield message that differs from the peer's bitfield has been read in
\* the middle of a piece, and the attempt goes on
C26_Witness ==
    /\ pc[1] = "loop"
    /\ ~readMsg.err
    /\ readMsg.msg # NilMsg
    /\ readMsg.msg.ID = MsgBitField
    /\ readMsg.msg.Payload # <<>>
    /\ readMsg.msg.Payload # client[1].Bitfield
    /\ state[1].downloaded = BLOCKSIZE
    /\ state[1].backlog = 1

\* the step is worker w writing a message to its peer
SendStep(w) == sent'[w] # sent[w] /\ sent'[w] # <<>>

\* the ID of the message written in the step
SentID(w) == sent'[w][1].msg.ID

\* C27: every session starts choked, the first one and every one after a
\* reconnect; the worker then sends Unchoke and after it Interested, and it
\* sends no Request on a session on which it has not read an Unchoke: a
\* Request goes out only while the session's choked flag is clear, and within
\* a session the flag is cleared only by reading an Unchoke.
C27_SessionStartsChoked ==
    [][\A w \in Workers :
         /\ (pc[w] = "connect" /\ pc'[w] # "connect" /\ pc'[w] # "sleep") =>
               /\ pc'[w] = "unchoke"
               /\ client'[w].open
               /\ client'[w].Choked
         /\ (pc'[w] = "unchoke" /\ pc[w] # "unchoke") => pc[w] = "connect"
         /\ (pc[w] = "unchoke" /\ pc'[w] # "unchoke") =>
               /\ pc'[w] = "interested"
               /\ SendStep(w)
               /\ SentID(w) = MsgUnchoke
               /\ client'[w] = client[w]
         /\ (pc[w] = "interested" /\ pc'[w] # "interested") =>
               /\ pc'[w] = "range"
               /\ SendStep(w)
               /\ SentID(w) = MsgInterested
               /\ client'[w] = client[w]
         /\ (SendStep(w) /\ SentID(w) = MsgRequest) =>
               /\ pc[w] = "loop"
               /\ client[w].open
               /\ ~client[w].Choked
         /\ (client[w].Choked /\ ~client'[w].Choked) =>
               /\ ReadStep(w)
               /\ ReadsID(MsgUnchoke)
               /\ client[w].open]_vars

\* an attempt has ended in a read error, the worker has connected again, and
\* the new session is choked with the Unchoke sent
C27_Witness ==
    /\ readMsg.err
    /\ pc[1] = "interested"
    /\ client[1].open
    /\ client[1].Choked
    /\ sent[1] # <<>>
    /\ sent[1][1].msg.ID = MsgUnchoke

-----------------------------------------------------------------------------
(* Claims about a session that serves several pieces, checked under
   SeriesSpec *)

\* worker w does something other than let time pass
WorkerStep(w) ==
    <<pc[w], client[w], state[w], sent[w], pieceW[w]>>' #
       <<pc[w], client[w], state[w], sent[w], pieceW[w]>>

\* C28: the choked flag belongs to the session, not to the piece: taking up
\* the next piece leaves it as it is, so once an Unchoke has been read during
\* one piece the Requests for the next piece on the same session go out at
\* once, before anything is read; within a session the flag is set again only
\* by reading a Choke.
C28_ChokedIsSessionState ==
    [][\A w \in Workers :
         /\ (pc[w] = "range" /\ pc'[w] = "loop") =>
               /\ client'[w] = client[w]
               /\ state'[w] = NewProgress(pieceW'[w])
         /\ (/\ pc[w] = "loop"
             /\ ~client[w].Choked
             /\ state[w].requested = 0
             /\ state[w].downloaded < pieceW[w].length
             /\ WorkerStep(w)) =>
               /\ SendStep(w)
               /\ SentID(w) = MsgRequest
               /\ Uint32(Slice(sent'[w][1].msg.Payload, 0, 4)) = pieceW[w].index
               /\ Uint32(Slice(sent'[w][1].msg.Payload, 4, 8)) = 0
         /\ (client'[w].Choked # client[w].Choked /\ pc[w] # "connect") =>
               /\ ReadStep(w)
               /\ IF client[w].Choked THEN ReadsID(MsgUnchoke) ELSE ReadsID(MsgChoke)]_vars

\* the last frame read is the block that completed one piece, and the Request
\* for the next piece has gone out on the same session with nothing read for
\* it
C28_Witness ==
    /\ pc[1] = "loop"
    /\ client[1].open
    /\ ~client[1].Choked
    /\ Len(printed) = 1
    /\ ~readMsg.err
    /\ readMsg.msg.ID = MsgPiece
    /\ Uint32(Slice(readMsg.msg.Payload, 0, 4)) # pieceW[1].index
    /\ state[1].requested = pieceW[1].length
    /\ state[1].backlog = 1
    /\ state[1].downloaded = 0
    /\ sent[1] # <<>>
    /\ sent[1][1].msg.ID = MsgRequest
    /\ sent[1][1].ok

-----------------------------------------------------------------------------
(* Claims about where the pieces are, checked under Spec *)

\* the PieceWork Download makes for piece i
WorkOf(i) ==
    [index |-> i, hash |-> t.PieceHashes[i], length |-> calculateLengthForPiece(i)]

\* how often piece i waits in the work queue
Queued(i) == Cardinality({k \in 1 .. Len(workQueue) : workQueue[k].index = i})

\* the workers that have piece i in hand, the one publishing it included
Holders(i) == {w \in Workers : pieceW[w].index = i}

\* how often piece i has been counted by Download
Counted(i) == Cardinality({k \in 1 .. Len(printed) : printed[k] = i})

\* the places of a worker's loop in which it has a piece in hand
HoldingPcs == {"missing", "loop", "failed", "mismatch", "have", "publish"}

\* C29: every piece that Download has put on the work queue is in exactly one
\* place: once in the queue, in the hand of one worker (which may be
\* publishing it on the result channel), or counted once by Download; a
\* PieceWork is never duplicated, lost or altered, whichever way the worker
\* goes on (missing piece, download error, hash mismatch, success).
C29_PieceConservation ==
    /\ \A i \in AllPieces :
         /\ Queued(i) + Cardinality(Holders(i)) + Counted(i) =
               IF i < seedIdx THEN 1 ELSE 0
         /\ \A w \in Holders(i) : pieceW[w] = WorkOf(i)
    /\ \A k \in 1 .. Len(workQueue) :
         /\ workQueue[k].index \in AllPieces
         /\ workQueue[k] = WorkOf(workQueue[k].index)
    /\ \A w \in Workers :
         /\ pieceW[w] = NoWork \/ pieceW[w].index \in AllPieces
         /\ ~panicked => (pc[w] \in HoldingPcs <=> pieceW[w] # NoWork)
    /\ mainPc \in {"recv", "done"} => donePieces = Len(printed)

\* one piece is counted and the other is back in the queue after a failed
\* attempt of worker 2, whose session is closed
C29_Witness ==
    /\ printed = <<1>>
    /\ Len(workQueue) = 1
    /\ workQueue[1].index = 0
    /\ pc[2] = "connect"
    /\ client[2] # NoClient
    /\ ~client[2].open
    /\ pieceW[1] = NoWork

\* the places of a worker's loop that stand before a send to the work queue
RequeuePcs == {"missing", "failed", "mismatch"}

\* the number of pieces workers have in hand
InHand == Cardinality({w \in Workers : pieceW[w] # NoWork})

\* C30: the items in the work queue and the pieces in the workers' hands
\* together never exceed the capacity of the queue, which is the number of
\* pieces; so a worker that is about to put a piece back (missing piece,
\* download error, hash mismatch) finds room and its step can be taken, and
\* so does every send of the seeding loop.
C30_RequeueNeverBlocks ==
    /\ Len(workQueue) + InHand <= NumPieces
    /\ \A w \in Workers :
         (~panicked /\ pc[w] \in RequeuePcs) =>
            /\ closed \/ Len(workQueue) < NumPieces
            /\ ENABLED (RequeueMissing(w) \/ DownloadFailed(w) \/ RequeueMismatch(w))
    /\ mainPc = "seed" =>
         /\ Len(workQueue) = seedIdx
         /\ seedIdx < NumPieces
         /\ ENABLED Seed

\* a piece has gone back to the end of the queue on a session that stays
\* open, and the queue is full again
C30_Witness ==
    /\ mainPc = "recv"
    /\ Len(workQueue) = NumPieces
    /\ workQueue[NumPieces].index = 0
    /\ pc[1] = "range"
    /\ client[1].open
    /\ pc[2] = "range"
    /\ donePieces = 0

\* C31: no worker sends on the work queue once Download has closed it: when
\* the queue is closed it is empty and stays empty, no worker has a piece in
\* hand or is in an attempt, and so no worker stands before one of the sends
\* that put a piece back, whatever the interleaving.
C31_NoSendAfterClose ==
    /\ closed =>
         /\ workQueue = <<>>
         /\ donePieces = NumPieces
         /\ \A w \in Workers :
              /\ pieceW[w] = NoWork
              /\ pc[w] \notin HoldingPcs
    /\ \A w \in Workers : pc[w] \in RequeuePcs => ~closed

\* the queue is closed and a worker has come round to it again after
\* another connect
C31_Witness ==
    /\ closed
    /\ mainPc = "done"
    /\ ~panicked
    /\ pc[1] = "range"
    /\ pc[2] = "sleep"
    /\ backoff[2] > Second

-----------------------------------------------------------------------------
(* Claims about the bitfield index, checked under SeriesSpec *)

\* worker w takes a piece off the queue and looks it up in the bitfield
ChecksPiece(w) == pc[w] = "range" /\ pieceW'[w] # pieceW[w]

\* worker w reads a well-formed Have during an attempt and sets its bit
SetsPiece(w) ==
    /\ pc[w] = "loop"
    /\ state[w].downloaded < pieceW[w].length
    /\ ~CanRequest(client[w], state[w], pieceW[w])
    /\ deadline'[w] # deadline[w] - 1
    /\ ReadsID(MsgHave)
    /\ ~parseHaveMessage(readMsg'.msg).err

\* C32: every bitfield access of a worker is in range: whatever Bitfield the
\* peer sent at connect and whatever index it sends in a Have, the
\* CheckPiece of a dequeued piece and the SetPiece of a Have find
\* index div 8 below the length of the stored bitfield.
C32_BitfieldAccessInRange ==
    [][\A w \in Workers :
         /\ ChecksPiece(w) => InRange(client[w].Bitfield, pieceW'[w].index)
         /\ SetsPiece(w) =>
               InRange(client[w].Bitfield, parseHaveMessage(readMsg'.msg).index)]_vars

-----------------------------------------------------------------------------
(* The engine of main.go: the same Download, Seed, Receive and Close, the
   same helpers and the same attempt loop as in package torrent; the
   differences are in startDownloadWorker (one session per worker, no
   reconnect; a failed sendHave goes on to the next piece) and in
   pieceProgress, whose client field is a Client, not a *Client *)

\* state := pieceProgress{index: pieceW.index, client: *client, buffer: ...}:
\* the progress record starts with a copy of the worker's Client
main_NewProgress(pw, cl) ==
    [index |-> pw.index, client |-> cl, buffer |-> Make(pw.length),
     downloaded |-> 0, requested |-> 0, backlog |-> 0]

\* client, err := NewClient(...); if err != nil { return }
main_Connect(w) ==
    /\ ~panicked
    /\ pc[w] = "connect"
    /\ \E frame \in ConnectFrames(w) : \E r \in {recieveBitField(frame)} :
         IF r.panic
         THEN /\ panicked' = TRUE
              /\ UNCHANGED <<pc, client>>
         ELSE IF r.err
         THEN /\ pc' = [pc EXCEPT ![w] = "exited"]
              /\ UNCHANGED <<client, panicked>>
         ELSE /\ pc' = [pc EXCEPT ![w] = "unchoke"]
              /\ client' = [client EXCEPT ![w] = NewClient(r.bf)]
              /\ UNCHANGED panicked
    /\ sent' = [sent EXCEPT ![w] = <<>>]
    /\ UNCHANGED <<cfgVars, ioVars, haves, deadline, mainVars, workQueue,
                   closed, backoff, pieceW, state>>

\* pieceW := <-workQueue, then client.Bitfield.CheckPiece(pieceW.index): the
\* piece is missing, or attemptToDownloadPiece starts with a copy of the
\* Client and sets the deadline
main_Dequeue(w) ==
    /\ ~panicked
    /\ pc[w] = "range"
    /\ workQueue # <<>>
    /\ workQueue' = Tail(workQueue)
    /\ pieceW' = [pieceW EXCEPT ![w] = Head(workQueue)]
    /\ LET pw == Head(workQueue) IN
       IF ~InRange(client[w].Bitfield, pw.index)
       THEN /\ panicked' = TRUE
            /\ UNCHANGED <<pc, state, deadline>>
       ELSE IF ~CheckPiece(client[w].Bitfield, pw.index)
       THEN /\ pc' = [pc EXCEPT ![w] = "missing"]
            /\ UNCHANGED <<state, deadline, panicked>>
       ELSE /\ pc' = [pc EXCEPT ![w] = "loop"]
            /\ state' = [state EXCEPT ![w] = main_NewProgress(pw, client[w])]
            /\ deadline' = [deadline EXCEPT ![w] = DeadlineTicks]
            /\ UNCHANGED panicked
    /\ sent' = [sent EXCEPT ![w] = <<>>]
    /\ UNCHANGED <<cfgVars, ioVars, haves, mainVars, closed, backoff, client>>

\* the range loop ends on the closed, drained queue; the worker returns and
\* the deferred client.Conn.Close() runs
main_RangeEnds(w) ==
    /\ ~panicked
    /\ pc[w] = "range"
    /\ workQueue = <<>>
    /\ closed
    /\ pc' = [pc EXCEPT ![w] = "exited"]
    /\ client' = [client EXCEPT ![w].open = FALSE]
    /\ sent' = [sent EXCEPT ![w] = <<>>]
    /\ UNCHANGED <<cfgVars, ioVars, haves, deadline, mainVars, workQueue,
                   closed, backoff, pieceW, state, panicked>>

\* if !state.client.Choked { ... client.sendRequest(...); state.backlog++;
\* state.requested += blockSize }: the flag read is the one of the copy
main_SendRequest(w) ==
    /\ ~panicked
    /\ pc[w] = "loop"
    /\ state[w].downloaded < pieceW[w].length
    /\ CanRequest(state[w].client, state[w], pieceW[w])
    /\ \E ok \in IF deadline[w] = 0 THEN {FALSE} ELSE WriteOutcomes(w) :
         /\ sent' = [sent EXCEPT ![w] =
                <<[msg |-> formatRequest(pieceW[w].index, state[w].requested,
                                         blockSize(state[w], pieceW[w])),
                   ok |-> ok]>>]
         /\ IF ok
            THEN /\ state' = [state EXCEPT
                       ![w].backlog = @ + 1,
                       ![w].requested = @ + blockSize(state[w], pieceW[w])]
                 /\ UNCHANGED <<pc, deadline>>
            ELSE /\ pc' = [pc EXCEPT ![w] = "failed"]
                 /\ deadline' = [deadline EXCEPT ![w] = NoDeadline]
                 /\ UNCHANGED state
    /\ UNCHANGED <<cfgVars, ioVars, haves, mainVars, workQueue, closed,
                   backoff, client, pieceW, panicked>>

\* err := state.checkState(): Choke and Unchoke are assigned to the copy in
\* state.client; SetPiece writes through the copy's Bitfield slice, which
\* shares its bytes with the worker's Client; the frame read is kept in
\* readMsg
main_Read(w) ==
    /\ ~panicked
    /\ pc[w] = "loop"
    /\ state[w].downloaded < pieceW[w].length
    /\ ~CanRequest(state[w].client, state[w], pieceW[w])
    /\ \E frame \in ReadableFrames(w) :
         /\ \E r \in {checkState(state[w].client, state[w], frame)} :
              IF r.panic
              THEN /\ panicked' = TRUE
                   /\ UNCHANGED <<pc, client, state, deadline>>
              ELSE IF r.err
              THEN /\ pc' = [pc EXCEPT ![w] = "failed"]
                   /\ deadline' = [deadline EXCEPT ![w] = NoDeadline]
                   /\ UNCHANGED <<client, state, panicked>>
              ELSE /\ state' = [state EXCEPT ![w] = [r.state EXCEPT !.client = r.client]]
                   /\ client' = [client EXCEPT ![w].Bitfield = r.client.Bitfield]
                   /\ UNCHANGED <<pc, deadline, panicked>>
         /\ readMsg' = [err |-> frame.err, msg |-> frame.msg,
                        n |-> IF frame.err THEN 0 ELSE BLen(Serialize(frame.msg))]
    /\ sent' = [sent EXCEPT ![w] = <<>>]
    /\ UNCHANGED <<cfgVars, wire, haves, mainVars, workQueue, closed,
                   backoff, pieceW>>

\* the attempt failed: log.Println("Exit", err); workQueue <- pieceW;
\* continue: the session stays open
main_DownloadFailed(w) ==
    /\ ~panicked
    /\ pc[w] = "failed"
    /\ Requeue(w, "range")
    /\ sent' = [sent EXCEPT ![w] = <<>>]
    /\ UNCHANGED <<cfgVars, ioVars, haves, deadline, mainVars, closed,
                   backoff, client>>

\* err = client.sendHave(pieceW.index); if err != nil { log.Println(err);
\* continue }: after a failed write the loop takes the next item and the
\* piece in hand is neither put back nor published
main_SendHave(w) ==
    /\ ~panicked
    /\ pc[w] = "have"
    /\ haves' = [haves EXCEPT ![pieceW[w].index] = @ + 1]
    /\ \E ok \in WriteOutcomes(w) :
         /\ sent' = [sent EXCEPT ![w] =
                <<[msg |-> formatHave(pieceW[w].index), ok |-> ok]>>]
         /\ IF ok
            THEN /\ pc' = [pc EXCEPT ![w] = "publish"]
                 /\ UNCHANGED <<pieceW, state>>
            ELSE /\ pc' = [pc EXCEPT ![w] = "range"]
                 /\ pieceW' = [pieceW EXCEPT ![w] = NoWork]
                 /\ state' = [state EXCEPT ![w] = NoProgress]
    /\ UNCHANGED <<cfgVars, ioVars, deadline, mainVars, workQueue, closed,
                   backoff, client, panicked>>

main_Next ==
    \/ RequestPeers
    \/ Seed
    \/ Spawn
    \/ Close
    \/ \E w \in Workers : Receive(w)
    \/ \E w \in Workers : main_Connect(w)
    \/ \E w \in Workers : SendUnchoke(w)
    \/ \E w \in Workers : SendInterested(w)
    \/ \E w \in Workers : main_Dequeue(w)
    \/ \E w \in Workers : main_RangeEnds(w)
    \/ \E w \in Workers : RequeueMissing(w)
    \/ \E w \in Workers : main_SendRequest(w)
    \/ \E w \in Workers : main_Read(w)
    \/ \E w \in Workers : Verify(w)
    \/ \E w \in Workers : Tick(w)
    \/ \E w \in Workers : main_DownloadFailed(w)
    \/ \E w \in Workers : RequeueMismatch(w)
    \/ \E w \in Workers : main_SendHave(w)

\* the engine of main.go on the torrent of two pieces with one peer
main_Spec == SeriesInit /\ [][main_Next]_vars

-----------------------------------------------------------------------------
(* Claims about the engine of main.go, checked under main_Spec *)

\* C33: in the engine of main.go every piece a worker took off the queue
\* leaves its hand only by being put back on the queue or by being handed to
\* Download, which counts it; this holds on every path of the work loop, the
\* one where sendHave fails after a good hash included, so no piece is
\* dropped.
C33_DequeuedPieceNotDropped ==
    [][\A w \in Workers :
         (pieceW[w] # NoWork /\ pieceW'[w] = NoWork) =>
            \/ workQueue' = Append(workQueue, pieceW[w])
            \/ /\ printed' = Append(printed, pieceW[w].index)
               /\ donePieces' = donePieces + 1]_vars

\* the step is worker w's checkState in the engine of main.go
main_ReadStep(w) ==
    /\ pc[w] = "loop"
    /\ state[w].downloaded < pieceW[w].length
    /\ ~CanRequest(state[w].client, state[w], pieceW[w])
    /\ deadline'[w] # deadline[w] - 1
    /\ ~panicked'

\* the last frame read on the session is an Unchoke
UnchokeReadLast ==
    ~readMsg.err /\ readMsg.msg # NilMsg /\ readMsg.msg.ID = MsgUnchoke

\* C34: in the engine of main.go the choke state learned during one piece is
\* there for the next piece of the same session: an Unchoke read during an
\* attempt clears the choked flag of the worker's Client, from which the
\* next attempt starts, and an attempt that starts when the last frame read
\* on the session was an Unchoke starts unchoked, so that its Requests go out
\* without another Unchoke.
C34_ChokeStateCarriesOver ==
    [][\A w \in Workers :
         /\ (main_ReadStep(w) /\ ReadsID(MsgUnchoke)) => ~client'[w].Choked
         /\ (pc[w] = "range" /\ pc'[w] = "loop" /\ UnchokeReadLast) =>
               /\ ~state'[w].client.Choked
               /\ CanRequest(state'[w].client, state'[w], pieceW'[w])]_vars

=============================================================================
